---------------------------- MODULE Spec2Model ----------------------------
(***************************************************************************)
(* mgq: a MongoDB find-filter as a predicate over documents (src/mgq.js).  *)
(*                                                                         *)
(* Values.  A JavaScript value is a tagged record:                         *)
(*   null       [t |-> "null"]                                             *)
(*   undefined  [t |-> "undef"]                                            *)
(*   boolean    [t |-> "bool",  b |-> BOOLEAN]                             *)
(*   number     [t |-> "num",   n |-> Int]         (an integer n)          *)
(*              [t |-> "num",   n |-> Int, half |-> TRUE]    (n + 0.5)     *)
(*              [t |-> "num",   n |-> 1..9, e |-> Int]       (n * 10^e)    *)
(*   string     [t |-> "str",   s |-> STRING]                              *)
(*   RegExp     [t |-> "regex", src |-> STRING, flags |-> STRING]          *)
(*   array      [t |-> "arr",   a |-> sequence of values]                  *)
(*   object     [t |-> "map",   m |-> sequence of [k |-> STRING, v |-> _]] *)
(*   function   [t |-> "fn",    of |-> tag, name |-> STRING]               *)
(* A RegExp with the g flag also has the mutable property lastIndex, held  *)
(* in the state of the predicate that owns the query.                      *)
(* An object's entries are kept in the order Object.keys / for-in          *)
(* enumerate them; its keys are unique.  Besides its own entries an object *)
(* has the properties it inherits from its prototype (constructor,         *)
(* toString, ...), which are functions and are not enumerated; an array    *)
(* also has the own property "length".                                     *)
(*                                                                         *)
(* Outcomes.  A call that can raise returns "true", "false" or "throw";    *)
(* a call that cannot raise returns a BOOLEAN.                             *)
(***************************************************************************)
EXTENDS Integers, Sequences, FiniteSets, TLC

Null == [t |-> "null"]
Undef == [t |-> "undef"]
Bool(b) == [t |-> "bool", b |-> b]
Num(n) == [t |-> "num", n |-> n]
\* the number n + 0.5
Half(n) == [t |-> "num", n |-> n, half |-> TRUE]
\* the number n * 10^e, for a digit n > 0 and e < -6 or e > 20: the numbers
\* String writes with an exponent.  They occur as operands of $size only.
Sci(n, e) == [t |-> "num", n |-> n, e |-> e]
\* twice a number that is an integer or an integer plus one half
Twice(v) ==
  CASE "half" \in DOMAIN v -> 2 * v.n + 1
    [] DOMAIN v = {"t", "n"} -> 2 * v.n
Str(s) == [t |-> "str", s |-> s]
Regex(src, flags) == [t |-> "regex", src |-> src, flags |-> flags]
Fn(of, name) == [t |-> "fn", of |-> of, name |-> name]
Arr(a) == [t |-> "arr", a |-> a]
Map(m) == [t |-> "map", m |-> m]
KV(k, v) == [k |-> k, v |-> v]

IsArray(v) == v.t = "arr"

\* typeof v === "object" && v !== null
IsObjectLike(v) == v.t \in {"arr", "map", "regex"}

isPlainObject(v) == v.t = "map"

isNil(v) == v.t \in {"null", "undef"}

\* Boolean(v)
Truthy(v) ==
  CASE v.t \in {"null", "undef"} -> FALSE
    [] v.t = "bool" -> v.b
    [] v.t = "num" -> Twice(v) # 0
    [] v.t = "str" -> v.s # ""
    [] OTHER -> TRUE

(***************************************************************************)
(* Strings                                                                 *)
(***************************************************************************)
Digits == {"0", "1", "2", "3", "4", "5", "6", "7", "8", "9"}

CharAt(s, i) == SubSeq(s, i, i)

DigitVal(c) ==
  CASE c = "0" -> 0 [] c = "1" -> 1 [] c = "2" -> 2 [] c = "3" -> 3
    [] c = "4" -> 4 [] c = "5" -> 5 [] c = "6" -> 6 [] c = "7" -> 7
    [] c = "8" -> 8 [] c = "9" -> 9

DigitChar(d) ==
  CASE d = 0 -> "0" [] d = 1 -> "1" [] d = 2 -> "2" [] d = 3 -> "3"
    [] d = 4 -> "4" [] d = 5 -> "5" [] d = 6 -> "6" [] d = 7 -> "7"
    [] d = 8 -> "8" [] d = 9 -> "9"

\* /^\d+$/.test(key)
IsIndexCandidate(key) ==
  Len(key) > 0 /\ \A i \in 1..Len(key) : CharAt(key, i) \in Digits

\* Number.parseInt(key) for a key of decimal digits
RECURSIVE ParseDigits(_, _)
ParseDigits(key, acc) ==
  IF key = "" THEN acc
  ELSE ParseDigits(Tail(key), 10 * acc + DigitVal(Head(key)))

parseInt(key) == ParseDigits(key, 0)

\* String(n) for an integer n
RECURSIVE NatToString(_)
NatToString(n) ==
  IF n < 10 THEN DigitChar(n)
  ELSE NatToString(n \div 10) \o DigitChar(n % 10)

NumToString(n) == IF n < 0 THEN "-" \o NatToString(-n) ELSE NatToString(n)

\* String(v) for a number v
NumberToString(v) ==
  IF "half" \in DOMAIN v
  THEN (IF Twice(v) < 0 THEN "-" ELSE "")
         \o NatToString((IF Twice(v) < 0 THEN 0 - Twice(v) ELSE Twice(v)) \div 2) \o ".5"
  ELSE IF "e" \in DOMAIN v
  THEN NatToString(v.n) \o (IF v.e < 0 THEN "e-" \o NatToString(0 - v.e)
                                       ELSE "e+" \o NatToString(v.e))
  ELSE NumToString(v.n)

\* path.split(".")
RECURSIVE SplitFrom(_, _, _)
SplitFrom(s, i, cur) ==
  IF i > Len(s) THEN <<cur>>
  ELSE IF CharAt(s, i) = "." THEN <<cur>> \o SplitFrom(s, i + 1, "")
  ELSE SplitFrom(s, i + 1, cur \o CharAt(s, i))

Split(path) == SplitFrom(path, 1, "")

\* a join that leaves out the dots
RECURSIVE JoinPlain(_)
JoinPlain(parts) ==
  IF Len(parts) = 0 THEN "" ELSE parts[1] \o JoinPlain(Tail(parts))

\* parts.join(".")
RECURSIVE Join(_)
Join(parts) ==
  IF Len(parts) = 0 THEN ""
  ELSE IF Len(parts) = 1 THEN parts[1]
  ELSE parts[1] \o "." \o Join(Tail(parts))

\* str.includes(sub)
Includes(str, sub) ==
  \E i \in 1..(Len(str) - Len(sub) + 1) : SubSeq(str, i, i + Len(sub) - 1) = sub

(***************************************************************************)
(* Property access                                                         *)
(***************************************************************************)
MapKeys(v) == [i \in 1..Len(v.m) |-> v.m[i].k]

MapHas(v, key) == \E i \in 1..Len(v.m) : v.m[i].k = key

MapGet(v, key) == v.m[CHOOSE i \in 1..Len(v.m) : v.m[i].k = key].v

\* an array's own index keys are the canonical decimal strings below length
IsOwnIndex(v, key) ==
  IsIndexCandidate(key) /\ NumToString(parseInt(key)) = key /\ parseInt(key) < Len(v.a)

\* the properties every object inherits from its prototype chain
InheritedKeys == {"constructor", "toString", "valueOf", "hasOwnProperty"}

\* the inherited property key of v: constructor and toString come from v's own
\* prototype, the others from Object.prototype
Inherited(v, key) ==
  IF key = "constructor"
  THEN Fn(v.t, CASE v.t = "map" -> "Object" [] v.t = "arr" -> "Array" [] OTHER -> "RegExp")
  ELSE Fn(IF key = "toString" THEN v.t ELSE "map", key)

\* key in v, for v with typeof v === "object" && v !== null: own and inherited
\* properties alike
HasKey(v, key) ==
  CASE v.t = "map" -> MapHas(v, key) \/ key \in InheritedKeys
    [] v.t = "arr" -> key = "length" \/ IsOwnIndex(v, key) \/ key \in InheritedKeys
    [] v.t = "regex" -> key = "lastIndex" \/ key \in InheritedKeys
    [] OTHER -> FALSE

\* v[key]; undefined when v has no such property
Get(v, key) ==
  CASE v.t = "map" -> IF MapHas(v, key) THEN MapGet(v, key)
                      ELSE IF key \in InheritedKeys THEN Inherited(v, key)
                      ELSE Undef
    [] v.t = "arr" -> IF key = "length" THEN Num(Len(v.a))
                      ELSE IF IsOwnIndex(v, key) THEN v.a[parseInt(key) + 1]
                      ELSE IF key \in InheritedKeys THEN Inherited(v, key)
                      ELSE Undef
    [] v.t = "regex" -> IF key = "lastIndex" THEN Num(0)
                        ELSE IF key \in InheritedKeys THEN Inherited(v, key)
                        ELSE Undef
    [] v.t = "str" -> IF key = "length" THEN Num(Len(v.s))
                      ELSE IF IsIndexCandidate(key) /\ NumToString(parseInt(key)) = key
                              /\ parseInt(key) < Len(v.s)
                      THEN Str(CharAt(v.s, parseInt(key) + 1))
                      ELSE Undef
    [] OTHER -> Undef

\* the keys a for-in loop over v visits, in order
ForInKeys(v) ==
  CASE v.t = "map" -> MapKeys(v)
    [] v.t = "arr" -> [i \in 1..Len(v.a) |-> NumToString(i - 1)]
    [] v.t = "str" -> [i \in 1..Len(v.s) |-> NumToString(i - 1)]
    [] OTHER -> <<>>

\* Object.keys(v) for an object
ObjectKeys(v) ==
  CASE v.t = "map" -> MapKeys(v)
    [] v.t = "arr" -> [i \in 1..Len(v.a) |-> NumToString(i - 1)]
    [] OTHER -> <<>>

(***************************************************************************)
(* fast-deep-equal                                                         *)
(***************************************************************************)
RECURSIVE deepEqual(_, _)
deepEqual(a, b) ==
  IF a.t # b.t THEN FALSE
  ELSE CASE a.t = "arr" ->
              /\ Len(a.a) = Len(b.a)
              /\ \A i \in 1..Len(a.a) : deepEqual(a.a[i], b.a[i])
         [] a.t = "map" ->
              /\ Len(a.m) = Len(b.m)
              /\ \A i \in 1..Len(a.m) : MapHas(b, a.m[i].k)
              /\ \A i \in 1..Len(a.m) : deepEqual(a.m[i].v, MapGet(b, a.m[i].k))
         [] a.t = "regex" -> a.src = b.src /\ a.flags = b.flags
         [] a.t = "bool" -> a.b = b.b
         [] a.t = "num" -> Twice(a) = Twice(b)
         [] a.t = "str" -> a.s = b.s
         [] a.t = "fn" -> a = b
         [] OTHER -> TRUE

(***************************************************************************)
(* JavaScript coercions and comparisons                                    *)
(***************************************************************************)
\* the printable ASCII characters in code-unit order: U+0020..U+005F and
\* U+0061..U+007E
AsciiLow == " !\"#$%&'()*+,-./0123456789:;<=>?@ABCDEFGHIJKLMNOPQRSTUVWXYZ[\\]^_"
AsciiHigh == "abcdefghijklmnopqrstuvwxyz{|}~"

\* the UTF-16 code unit of a character
CodeUnit(c) ==
  IF c = "\n" THEN 10
  ELSE IF \E i \in 1..Len(AsciiLow) : CharAt(AsciiLow, i) = c
  THEN 31 + (CHOOSE i \in 1..Len(AsciiLow) : CharAt(AsciiLow, i) = c)
  ELSE 96 + (CHOOSE i \in 1..Len(AsciiHigh) : CharAt(AsciiHigh, i) = c)

\* an order on strings that compares their lengths
StrShorter(a, b) == Len(a) < Len(b)

\* a < b on strings: lexicographic by code units
StrLess(a, b) ==
  \E i \in 1..(Len(b)) :
     /\ i <= Len(a) + 1
     /\ SubSeq(a, 1, i - 1) = SubSeq(b, 1, i - 1)
     /\ \/ i = Len(a) + 1
        \/ CodeUnit(CharAt(a, i)) < CodeUnit(CharAt(b, i))

\* String(v)
RECURSIVE JsToString(_)
RECURSIVE JoinComma(_)
JoinComma(a) ==
  IF Len(a) = 0 THEN ""
  ELSE LET h == IF isNil(a[1]) THEN "" ELSE JsToString(a[1])
       IN  IF Len(a) = 1 THEN h ELSE h \o "," \o JoinComma(Tail(a))

JsToString(v) ==
  CASE v.t = "null" -> "null"
    [] v.t = "undef" -> "undefined"
    [] v.t = "bool" -> IF v.b THEN "true" ELSE "false"
    [] v.t = "num" -> NumberToString(v)
    [] v.t = "str" -> v.s
    [] v.t = "regex" -> "/" \o v.src \o "/" \o v.flags
    [] v.t = "arr" -> JoinComma(v.a)
    [] v.t = "map" -> "[object Object]"
    [] v.t = "fn" -> "function " \o v.name \o "() { [native code] }"

\* ToPrimitive(v): objects convert through toString
ToPrimitive(v) == IF v.t \in {"arr", "map", "regex", "fn"} THEN Str(JsToString(v)) ELSE v

NaN == [nan |-> TRUE]
Finite(n) == [nan |-> FALSE, n |-> n]

\* Number(s), as twice its value, for a string of this model: "", decimal
\* digits with an optional minus sign and an optional ".5"; anything else is
\* NaN
StringToNumber(s) ==
  LET neg == Len(s) > 0 /\ Head(s) = "-"
      abs == IF neg THEN Tail(s) ELSE s
      frac == Len(abs) > 2 /\ SubSeq(abs, Len(abs) - 1, Len(abs)) = ".5"
      int == IF frac THEN SubSeq(abs, 1, Len(abs) - 2) ELSE abs
  IN  IF s = "" THEN Finite(0)
      ELSE IF ~IsIndexCandidate(int) THEN NaN
      ELSE Finite((IF neg THEN 0 - 1 ELSE 1) * (2 * parseInt(int) + (IF frac THEN 1 ELSE 0)))

\* ToNumber(p) for a primitive p, as twice its value
ToNumber(p) ==
  CASE p.t = "null" -> Finite(0)
    [] p.t = "undef" -> NaN
    [] p.t = "bool" -> Finite(IF p.b THEN 2 ELSE 0)
    [] p.t = "num" -> Finite(Twice(p))
    [] p.t = "str" -> StringToNumber(p.s)

\* a < b
JsLess(a, b) ==
  LET pa == ToPrimitive(a)
      pb == ToPrimitive(b)
  IN  IF pa.t = "str" /\ pb.t = "str" THEN StrLess(pa.s, pb.s)
      ELSE LET na == ToNumber(pa)
               nb == ToNumber(pb)
           IN  ~na.nan /\ ~nb.nan /\ na.n < nb.n

\* a > b
JsGreater(a, b) == JsLess(b, a)

\* a === b, for a taken from the document and b from the query: two distinct
\* objects are never identical
StrictEqual(a, b) ==
  /\ a.t = b.t
  /\ CASE a.t = "bool" -> a.b = b.b
       [] a.t = "num" -> Twice(a) = Twice(b)
       [] a.t = "str" -> a.s = b.s
       [] a.t \in {"null", "undef"} -> TRUE
       [] OTHER -> FALSE

(***************************************************************************)
(* Regular expressions.  The patterns of this model are an optional "^",   *)
(* a body of literal characters and "." wildcards, and an optional "$";    *)
(* the flags i, m and s have their JavaScript meaning.  A pattern with an  *)
(* unterminated group is a SyntaxError.                                    *)
(***************************************************************************)
Upper == "ABCDEFGHIJKLMNOPQRSTUVWXYZ"
Lower == "abcdefghijklmnopqrstuvwxyz"

ToLower(c) ==
  IF \E i \in 1..Len(Upper) : CharAt(Upper, i) = c
  THEN CharAt(Lower, CHOOSE i \in 1..Len(Upper) : CharAt(Upper, i) = c)
  ELSE c

\* new RegExp(src) raises a SyntaxError
PatternThrows(src) == Includes(src, "(") /\ ~Includes(src, ")")

PatternCharMatches(pc, c, flags) ==
  IF pc = "." THEN c # "\n" \/ Includes(flags, "s")
  ELSE IF Includes(flags, "i") THEN ToLower(pc) = ToLower(c)
  ELSE pc = c

\* new RegExp(src, flags).test(str), for a pattern that compiles
RegexTest(src, flags, str) ==
  LET atStart == Len(src) > 0 /\ Head(src) = "^"
      s1 == IF atStart THEN Tail(src) ELSE src
      atEnd == Len(s1) > 0 /\ CharAt(s1, Len(s1)) = "$"
      body == IF atEnd THEN SubSeq(s1, 1, Len(s1) - 1) ELSE s1
      multi == Includes(flags, "m")
  IN  \E pos \in 1..(Len(str) - Len(body) + 1) :
         /\ \A j \in 1..Len(body) :
               PatternCharMatches(CharAt(body, j), CharAt(str, pos + j - 1), flags)
         /\ \/ ~atStart
            \/ pos = 1
            \/ multi /\ CharAt(str, pos - 1) = "\n"
         /\ \/ ~atEnd
            \/ pos + Len(body) - 1 = Len(str)
            \/ multi /\ CharAt(str, pos + Len(body)) = "\n"

(***************************************************************************)
(* Operator-argument validators                                            *)
(***************************************************************************)
validateQueryOps(query) == IsArray(query)

validateInNin(value) == IsArray(value)

StartsWithDollar(k) == Len(k) > 0 /\ Head(k) = "$"

validateAllElemMatch(ov) ==
  \A i \in 1..Len(ov.a) : IsObjectLike(ov.a[i]) /\ HasKey(ov.a[i], "$elemMatch")

\* a validateAll that only asks for a list
validateAllOfAnyList(value) == IsArray(value)

validateAll(value) ==
  IF ~IsArray(value) THEN FALSE
  ELSE IF Len(value.a) = 0 THEN TRUE
  ELSE IF \A i \in 1..Len(value.a) :
             /\ isPlainObject(value.a[i])
             /\ \E j \in 1..Len(value.a[i].m) : StartsWithDollar(value.a[i].m[j].k)
       THEN validateAllElemMatch(value)
       ELSE TRUE

\* a validateMod that forgets the length of the list
validateModAtLeastTwo(value) ==
  /\ IsArray(value)
  /\ Len(value.a) >= 2
  /\ value.a[1].t = "num"
  /\ value.a[2].t = "num"

validateMod(value) ==
  /\ IsArray(value)
  /\ Len(value.a) = 2
  /\ value.a[1].t = "num"
  /\ value.a[2].t = "num"

validateSize(value) == value.t = "num"

(***************************************************************************)
(* $eq, $ne, $in, $nin                                                     *)
(***************************************************************************)
\* the index of the first TRUE of a sequence of booleans, or 0
FirstTrue(bs) ==
  IF \E i \in 1..Len(bs) : bs[i]
  THEN CHOOSE i \in 1..Len(bs) : bs[i] /\ \A j \in 1..(i - 1) : ~bs[j]
  ELSE 0

RECURSIVE matchEq(_, _, _)
matchEq(doc, path, ov) ==
  IF Len(path) = 0
  THEN IF IsArray(doc) /\ \E i \in 1..Len(doc.a) : matchEq(doc.a[i], path, ov)
       THEN TRUE
       ELSE IF ov.t = "regex" /\ doc.t = "str" /\ RegexTest(ov.src, ov.flags, doc.s)
       THEN TRUE
       ELSE deepEqual(doc, ov)
  ELSE LET key == path[1]
           rest == Tail(path)
       IN  IF IsObjectLike(doc) /\ HasKey(doc, key)
           THEN matchEq(Get(doc, key), rest, ov)
           ELSE IF IsArray(doc)
           THEN IF IsIndexCandidate(key) /\ parseInt(key) < Len(doc.a)
                THEN matchEq(doc.a[parseInt(key) + 1], rest, ov)
                ELSE \E i \in 1..Len(doc.a) : matchEq(doc.a[i], path, ov)
           ELSE isNil(ov)

matchNe(doc, pathParts, query) == ~matchEq(doc, pathParts, query)

RECURSIVE matchIn(_, _, _)
matchIn(doc, path, ov) ==
  IF ~validateInNin(ov) THEN FALSE
  ELSE IF Len(path) = 0
  THEN IF IsArray(doc) /\ \E i \in 1..Len(doc.a) : matchIn(doc.a[i], path, ov)
       THEN TRUE
       ELSE \E j \in 1..Len(ov.a) : matchEq(doc, path, ov.a[j])
  ELSE LET key == path[1]
           rest == Tail(path)
       IN  IF IsObjectLike(doc) /\ HasKey(doc, key)
           THEN matchIn(Get(doc, key), rest, ov)
           ELSE IF IsArray(doc)
           THEN IF IsIndexCandidate(key) /\ parseInt(key) < Len(doc.a)
                THEN matchIn(doc.a[parseInt(key) + 1], rest, ov)
                ELSE \E i \in 1..Len(doc.a) : matchIn(doc.a[i], path, ov)
           ELSE \E j \in 1..Len(ov.a) : isNil(ov.a[j])

\* matchNin without the negation
matchNinSame(doc, path, ov) ==
  IF ~validateInNin(ov) THEN FALSE
  ELSE matchIn(doc, path, ov)

matchNin(doc, path, ov) ==
  IF ~validateInNin(ov) THEN FALSE
  ELSE ~matchIn(doc, path, ov)

(***************************************************************************)
(* $gt, $gte, $lt, $lte                                                    *)
(***************************************************************************)
RECURSIVE matchGt(_, _, _)
matchGt(doc, path, ov) ==
  IF Len(path) = 0
  THEN IF IsArray(doc) /\ \E i \in 1..Len(doc.a) : matchGt(doc.a[i], path, ov)
       THEN TRUE
       ELSE IF IsArray(doc) /\ IsArray(ov)
       THEN LET n == IF Len(doc.a) > Len(ov.a) THEN Len(doc.a) ELSE Len(ov.a)
                Decides(i) == \/ i > Len(ov.a)
                              \/ i > Len(doc.a)
                              \/ ~StrictEqual(doc.a[i], ov.a[i])
                k == FirstTrue([i \in 1..n |-> Decides(i)])
            IN  IF k = 0 THEN FALSE
                ELSE IF k > Len(ov.a) THEN TRUE
                ELSE IF k > Len(doc.a) THEN FALSE
                ELSE JsGreater(doc.a[k], ov.a[k])
       ELSE IF isPlainObject(doc) /\ isPlainObject(ov)
       THEN LET docKeys == ObjectKeys(doc)
                ovKeys == ObjectKeys(ov)
                n == IF Len(docKeys) > Len(ovKeys) THEN Len(docKeys) ELSE Len(ovKeys)
                Decides(i) == \/ i > Len(docKeys)
                              \/ i > Len(ovKeys)
                              \/ docKeys[i] # ovKeys[i]
                              \/ JsGreater(MapGet(doc, docKeys[i]), MapGet(ov, ovKeys[i]))
                              \/ JsLess(MapGet(doc, docKeys[i]), MapGet(ov, ovKeys[i]))
                k == FirstTrue([i \in 1..n |-> Decides(i)])
            IN  IF k = 0 THEN FALSE
                ELSE IF k > Len(docKeys) THEN FALSE
                ELSE IF k > Len(ovKeys) THEN TRUE
                ELSE IF docKeys[k] # ovKeys[k] THEN StrLess(ovKeys[k], docKeys[k])
                ELSE IF JsGreater(MapGet(doc, docKeys[k]), MapGet(ov, ovKeys[k])) THEN TRUE
                ELSE FALSE
       ELSE IF doc.t = "num" /\ ov.t = "num" THEN Twice(doc) > Twice(ov)
       ELSE IF doc.t = "str" /\ ov.t = "str" THEN StrLess(ov.s, doc.s)
       ELSE FALSE
  ELSE LET key == path[1]
           rest == Tail(path)
       IN  IF isPlainObject(doc) /\ HasKey(doc, key)
           THEN matchGt(Get(doc, key), rest, ov)
           ELSE IF IsArray(doc)
           THEN IF IsIndexCandidate(key) /\ parseInt(key) < Len(doc.a)
                THEN matchGt(doc.a[parseInt(key) + 1], rest, ov)
                ELSE \E i \in 1..Len(doc.a) : matchGt(doc.a[i], path, ov)
           ELSE FALSE

RECURSIVE matchGte(_, _, _)
matchGte(doc, path, ov) ==
  IF Len(path) = 0
  THEN IF IsArray(doc) /\ \E i \in 1..Len(doc.a) : matchGte(doc.a[i], path, ov)
       THEN TRUE
       ELSE IF IsArray(doc) /\ IsArray(ov)
       THEN LET n == IF Len(doc.a) > Len(ov.a) THEN Len(doc.a) ELSE Len(ov.a)
                Decides(i) == \/ i > Len(ov.a)
                              \/ i > Len(doc.a)
                              \/ ~StrictEqual(doc.a[i], ov.a[i])
                k == FirstTrue([i \in 1..n |-> Decides(i)])
            IN  IF k = 0 THEN TRUE
                ELSE IF k > Len(ov.a) THEN TRUE
                ELSE IF k > Len(doc.a) THEN FALSE
                ELSE JsGreater(doc.a[k], ov.a[k])
       ELSE IF isPlainObject(doc) /\ isPlainObject(ov)
       THEN IF Len(ObjectKeys(doc)) = 0 /\ Len(ObjectKeys(ov)) = 0 THEN TRUE
            ELSE LET docKeys == ObjectKeys(doc)
                ovKeys == ObjectKeys(ov)
                n == IF Len(docKeys) > Len(ovKeys) THEN Len(docKeys) ELSE Len(ovKeys)
                Decides(i) == \/ i > Len(docKeys)
                              \/ i > Len(ovKeys)
                              \/ docKeys[i] # ovKeys[i]
                              \/ JsGreater(MapGet(doc, docKeys[i]), MapGet(ov, ovKeys[i]))
                              \/ JsLess(MapGet(doc, docKeys[i]), MapGet(ov, ovKeys[i]))
                k == FirstTrue([i \in 1..n |-> Decides(i)])
            IN  IF k = 0 THEN TRUE
                ELSE IF k > Len(docKeys) THEN FALSE
                ELSE IF k > Len(ovKeys) THEN TRUE
                ELSE IF docKeys[k] # ovKeys[k] THEN StrLess(ovKeys[k], docKeys[k])
                ELSE IF JsGreater(MapGet(doc, docKeys[k]), MapGet(ov, ovKeys[k])) THEN TRUE
                ELSE FALSE
       ELSE IF doc.t = "num" /\ ov.t = "num" THEN Twice(doc) >= Twice(ov)
       ELSE IF doc.t = "str" /\ ov.t = "str" THEN ~StrLess(doc.s, ov.s)
       ELSE IF isNil(doc) /\ isNil(ov) THEN TRUE
       ELSE FALSE
  ELSE LET key == path[1]
           rest == Tail(path)
       IN  IF isPlainObject(doc) /\ HasKey(doc, key)
           THEN matchGte(Get(doc, key), rest, ov)
           ELSE IF IsArray(doc)
           THEN IF IsIndexCandidate(key) /\ parseInt(key) < Len(doc.a)
                THEN matchGte(doc.a[parseInt(key) + 1], rest, ov)
                ELSE \E i \in 1..Len(doc.a) : matchGte(doc.a[i], path, ov)
           ELSE isNil(ov)

RECURSIVE matchLt(_, _, _)
matchLt(doc, path, ov) ==
  IF Len(path) = 0
  THEN IF IsArray(doc) /\ \E i \in 1..Len(doc.a) : matchLt(doc.a[i], path, ov)
       THEN TRUE
       ELSE IF IsArray(doc) /\ IsArray(ov)
       THEN LET n == IF Len(doc.a) > Len(ov.a) THEN Len(doc.a) ELSE Len(ov.a)
                Decides(i) == \/ i > Len(ov.a)
                              \/ i > Len(doc.a)
                              \/ ~StrictEqual(doc.a[i], ov.a[i])
                k == FirstTrue([i \in 1..n |-> Decides(i)])
            IN  IF k = 0 THEN FALSE
                ELSE IF k > Len(doc.a) THEN TRUE
                ELSE IF k > Len(ov.a) THEN FALSE
                ELSE JsLess(doc.a[k], ov.a[k])
       ELSE IF isPlainObject(doc) /\ isPlainObject(ov)
       THEN IF Len(ObjectKeys(doc)) = 0 /\ Len(ObjectKeys(ov)) = 0 THEN FALSE
            ELSE LET docKeys == ObjectKeys(doc)
                ovKeys == ObjectKeys(ov)
                n == IF Len(docKeys) > Len(ovKeys) THEN Len(docKeys) ELSE Len(ovKeys)
                Decides(i) == \/ i > Len(docKeys)
                              \/ i > Len(ovKeys)
                              \/ docKeys[i] # ovKeys[i]
                              \/ JsGreater(MapGet(doc, docKeys[i]), MapGet(ov, ovKeys[i]))
                              \/ JsLess(MapGet(doc, docKeys[i]), MapGet(ov, ovKeys[i]))
                k == FirstTrue([i \in 1..n |-> Decides(i)])
            IN  IF k = 0 THEN FALSE
                ELSE IF k > Len(docKeys) THEN TRUE
                ELSE IF k > Len(ovKeys) THEN FALSE
                ELSE IF docKeys[k] # ovKeys[k] THEN StrLess(docKeys[k], ovKeys[k])
                ELSE IF JsGreater(MapGet(doc, docKeys[k]), MapGet(ov, ovKeys[k])) THEN FALSE
                ELSE TRUE
       ELSE IF doc.t = "num" /\ ov.t = "num" THEN Twice(doc) < Twice(ov)
       ELSE IF doc.t = "str" /\ ov.t = "str" THEN StrLess(doc.s, ov.s)
       ELSE FALSE
  ELSE LET key == path[1]
           rest == Tail(path)
       IN  IF isPlainObject(doc) /\ HasKey(doc, key)
           THEN matchLt(Get(doc, key), rest, ov)
           ELSE IF IsArray(doc)
           THEN IF IsIndexCandidate(key) /\ parseInt(key) < Len(doc.a)
                THEN matchLt(doc.a[parseInt(key) + 1], rest, ov)
                ELSE \E i \in 1..Len(doc.a) : matchLt(doc.a[i], path, ov)
           ELSE FALSE

RECURSIVE matchLte(_, _, _)
\* a matchLte without the equal case
matchLteWithoutEqual(doc, path, ov) == matchLt(doc, path, ov)

matchLte(doc, path, ov) ==
  IF Len(path) = 0
  THEN IF IsArray(doc) /\ \E i \in 1..Len(doc.a) : matchLte(doc.a[i], path, ov)
       THEN TRUE
       ELSE IF IsArray(doc) /\ IsArray(ov)
       THEN LET n == IF Len(doc.a) > Len(ov.a) THEN Len(doc.a) ELSE Len(ov.a)
                Decides(i) == \/ i > Len(ov.a)
                              \/ i > Len(doc.a)
                              \/ ~StrictEqual(doc.a[i], ov.a[i])
                k == FirstTrue([i \in 1..n |-> Decides(i)])
            IN  IF k = 0 THEN TRUE
                ELSE IF k > Len(doc.a) THEN TRUE
                ELSE IF k > Len(ov.a) THEN FALSE
                ELSE JsLess(doc.a[k], ov.a[k])
       ELSE IF isPlainObject(doc) /\ isPlainObject(ov)
       THEN IF Len(ObjectKeys(doc)) = 0 /\ Len(ObjectKeys(ov)) = 0 THEN TRUE
            ELSE LET docKeys == ObjectKeys(doc)
                ovKeys == ObjectKeys(ov)
                n == IF Len(docKeys) > Len(ovKeys) THEN Len(docKeys) ELSE Len(ovKeys)
                Decides(i) == \/ i > Len(docKeys)
                              \/ i > Len(ovKeys)
                              \/ docKeys[i] # ovKeys[i]
                              \/ JsGreater(MapGet(doc, docKeys[i]), MapGet(ov, ovKeys[i]))
                              \/ JsLess(MapGet(doc, docKeys[i]), MapGet(ov, ovKeys[i]))
                k == FirstTrue([i \in 1..n |-> Decides(i)])
            IN  IF k = 0 THEN TRUE
                ELSE IF k > Len(docKeys) THEN TRUE
                ELSE IF k > Len(ovKeys) THEN FALSE
                ELSE IF docKeys[k] # ovKeys[k] THEN StrLess(docKeys[k], ovKeys[k])
                ELSE IF JsGreater(MapGet(doc, docKeys[k]), MapGet(ov, ovKeys[k])) THEN FALSE
                ELSE TRUE
       ELSE IF doc.t = "num" /\ ov.t = "num" THEN Twice(doc) <= Twice(ov)
       ELSE IF doc.t = "str" /\ ov.t = "str" THEN ~StrLess(ov.s, doc.s)
       ELSE IF isNil(doc) /\ isNil(ov) THEN TRUE
       ELSE FALSE
  ELSE LET key == path[1]
           rest == Tail(path)
       IN  IF isPlainObject(doc) /\ HasKey(doc, key)
           THEN matchLte(Get(doc, key), rest, ov)
           ELSE IF IsArray(doc)
           THEN IF IsIndexCandidate(key) /\ parseInt(key) < Len(doc.a)
                THEN matchLte(doc.a[parseInt(key) + 1], rest, ov)
                ELSE \E i \in 1..Len(doc.a) : matchLte(doc.a[i], path, ov)
           ELSE isNil(ov)

(***************************************************************************)
(* Outcomes of calls that can raise                                        *)
(***************************************************************************)
B(b) == IF b THEN "true" ELSE "false"

\* !r
Neg(r) == IF r = "throw" THEN "throw" ELSE B(r = "false")

\* results.every(Boolean) once every result has been pushed: an exception
\* in any push leaves matchCond
Conj(rs) ==
  IF \E i \in 1..Len(rs) : rs[i] = "throw" THEN "throw"
  ELSE B(\A i \in 1..Len(rs) : rs[i] = "true")

\* results.some(Boolean), likewise
Disj(rs) ==
  IF \E i \in 1..Len(rs) : rs[i] = "throw" THEN "throw"
  ELSE B(Len(rs) = 0 \/ \E i \in 1..Len(rs) : rs[i] = "true")

\* array.some(f), rs[i] being the outcome of f on the i-th element: the
\* first element whose outcome is not false ends the iteration
SomeOutcome(rs) ==
  LET k == FirstTrue([i \in 1..Len(rs) |-> rs[i] # "false"])
  IN  IF k = 0 THEN "false" ELSE rs[k]

\* array.every(f)
EveryOutcome(rs) ==
  LET k == FirstTrue([i \in 1..Len(rs) |-> rs[i] # "true"])
  IN  IF k = 0 THEN "true" ELSE rs[k]

(***************************************************************************)
(* $mod, $size                                                             *)
(***************************************************************************)
Abs(n) == IF n < 0 THEN 0 - n ELSE n

\* Math.floor of the number h / 2
Floor(h) == h \div 2

\* a % b for the number a / 2 and the integer b, as twice its value: NaN for
\* b = 0, else the remainder of the truncated division, with the sign of a
JsRem(a, b) ==
  IF b = 0 THEN NaN
  ELSE Finite((IF a < 0 THEN 0 - 1 ELSE 1) * (Abs(a) % Abs(2 * b)))

RECURSIVE matchMod(_, _, _)
matchMod(doc, path, ov) ==
  IF ~validateMod(ov) THEN FALSE
  ELSE IF Len(path) = 0
  THEN IF IsArray(doc) /\ \E i \in 1..Len(doc.a) : matchMod(doc.a[i], path, ov)
       THEN TRUE
       ELSE IF doc.t # "num" THEN FALSE
       ELSE LET divisor == Floor(Twice(ov.a[1]))
                expected_remainder == Floor(Twice(ov.a[2]))
                doc_remainder == JsRem(Twice(doc), divisor)
            IN  ~doc_remainder.nan /\ Floor(doc_remainder.n) = expected_remainder
  ELSE LET key == path[1]
           rest == Tail(path)
       IN  IF IsObjectLike(doc) /\ HasKey(doc, key)
           THEN matchMod(Get(doc, key), rest, ov)
           ELSE IF IsArray(doc)
           THEN IF IsIndexCandidate(key) /\ parseInt(key) < Len(doc.a)
                THEN matchMod(doc.a[parseInt(key) + 1], rest, ov)
                ELSE \E i \in 1..Len(doc.a) : matchMod(doc.a[i], path, ov)
           ELSE FALSE

\* the decimal digits a string starts with
RECURSIVE LeadingDigits(_)
LeadingDigits(str) ==
  IF Len(str) = 0 \/ Head(str) \notin Digits THEN ""
  ELSE Head(str) \o LeadingDigits(Tail(str))

\* Number.parseInt(v) for a number v: the integer read from the start of
\* String(v)
parseIntOfNumber(v) ==
  LET str == NumberToString(v)
  IN  IF Head(str) = "-" THEN 0 - parseInt(LeadingDigits(Tail(str)))
      ELSE parseInt(LeadingDigits(str))

RECURSIVE matchSize(_, _, _)
matchSize(doc, path, ov) ==
  IF ~validateSize(ov) THEN FALSE
  ELSE IF Len(path) = 0
  THEN IF ~IsArray(doc) THEN FALSE
       ELSE Len(doc.a) = parseIntOfNumber(ov)
  ELSE LET key == path[1]
           rest == Tail(path)
       IN  IF IsObjectLike(doc) /\ HasKey(doc, key)
           THEN matchSize(Get(doc, key), rest, ov)
           ELSE IF IsArray(doc)
           THEN IF IsIndexCandidate(key) /\ parseInt(key) < Len(doc.a)
                THEN matchSize(doc.a[parseInt(key) + 1], rest, ov)
                ELSE \E i \in 1..Len(doc.a) : matchSize(doc.a[i], path, ov)
           ELSE FALSE

(***************************************************************************)
(* $regex                                                                  *)
(***************************************************************************)
\* options.includes(letter) raises a TypeError: options is neither a string
\* nor an array
IncludesThrows(options) == options.t \notin {"str", "arr"}

\* options.includes(letter)
OptionsInclude(options, letter) ==
  IF options.t = "str" THEN Includes(options.s, letter)
  ELSE \E i \in 1..Len(options.a) : options.a[i] = Str(letter)

\* the source of new RegExp(pattern, flags)
RegexSource(pattern) ==
  CASE pattern.t = "regex" -> pattern.src
    [] pattern.t = "undef" -> ""
    [] OTHER -> JsToString(pattern)

RECURSIVE matchRegex(_, _, _)
matchRegex(doc, path, ov) ==
  IF Len(path) = 0
  THEN LET fan == IF IsArray(doc)
                  THEN SomeOutcome([i \in 1..Len(doc.a) |-> matchRegex(doc.a[i], path, ov)])
                  ELSE "false"
       IN  IF fan # "false" THEN fan
           ELSE IF doc.t # "str" THEN "false"
           ELSE LET options == MapGet(ov, "$options")
                IN  IF IncludesThrows(options) THEN "throw"
                    ELSE LET flags == (IF OptionsInclude(options, "i") THEN "i" ELSE "")
                                      \o (IF OptionsInclude(options, "m") THEN "m" ELSE "")
                                      \o (IF OptionsInclude(options, "s") THEN "s" ELSE "")
                             source == RegexSource(MapGet(ov, "$regex"))
                         IN  IF PatternThrows(source) THEN "throw"
                             ELSE B(RegexTest(source, flags, doc.s))
  ELSE LET key == path[1]
           rest == Tail(path)
       IN  IF IsObjectLike(doc) /\ HasKey(doc, key)
           THEN matchRegex(Get(doc, key), rest, ov)
           ELSE IF IsArray(doc)
           THEN IF IsIndexCandidate(key) /\ parseInt(key) < Len(doc.a)
                THEN matchRegex(doc.a[parseInt(key) + 1], rest, ov)
                ELSE SomeOutcome([i \in 1..Len(doc.a) |-> matchRegex(doc.a[i], path, ov)])
           ELSE "false"

(***************************************************************************)
(* Queries                                                                 *)
(***************************************************************************)
condOps == {"$eq", "$gt", "$gte", "$in", "$lt", "$lte", "$ne", "$nin", "$not",
            "$regex", "$options", "$mod", "$all", "$elemMatch", "$size"}

queryOps == {"$and", "$or", "$nor"}

\* a checkAllExp content with one operator key among the keys
checkSomeExp(expOrOv) ==
  /\ Truthy(expOrOv)
  /\ isPlainObject(expOrOv)
  /\ ~deepEqual(expOrOv, Map(<<>>))
  /\ \E i \in 1..Len(expOrOv.m) : expOrOv.m[i].k \in condOps

checkAllExp(expOrOv) ==
  /\ Truthy(expOrOv)
  /\ isPlainObject(expOrOv)
  /\ ~deepEqual(expOrOv, Map(<<>>))
  /\ \A i \in 1..Len(expOrOv.m) : expOrOv.m[i].k \in condOps

\* the concatenation of a sequence of sequences
RECURSIVE Flatten(_)
Flatten(ss) == IF Len(ss) = 0 THEN <<>> ELSE ss[1] \o Flatten(Tail(ss))

RECURSIVE matchCond(_, _)
RECURSIVE matchAnd(_, _, _)
RECURSIVE matchOr(_, _, _)
RECURSIVE matchNor(_, _, _)
RECURSIVE matchNot(_, _, _)
RECURSIVE matchElemMatch(_, _, _)
RECURSIVE matchAll(_, _, _)

\* one value-level operator applied to doc at pathParts
ValueOp(op, ov, doc, pathParts) ==
  CASE op = "$eq" -> B(matchEq(doc, pathParts, ov))
    [] op = "$ne" -> B(matchNe(doc, pathParts, ov))
    [] op = "$gt" -> B(matchGt(doc, pathParts, ov))
    [] op = "$gte" -> B(matchGte(doc, pathParts, ov))
    [] op = "$lt" -> B(matchLt(doc, pathParts, ov))
    [] op = "$lte" -> B(matchLte(doc, pathParts, ov))
    [] op = "$in" -> B(matchIn(doc, pathParts, ov))
    [] op = "$nin" -> B(matchNin(doc, pathParts, ov))
    [] op = "$regex" -> matchRegex(doc, pathParts, ov)
    [] op = "$mod" -> B(matchMod(doc, pathParts, ov))
    [] op = "$all" -> matchAll(doc, pathParts, ov)
    [] op = "$elemMatch" -> matchElemMatch(doc, pathParts, ov)
    [] op = "$size" -> B(matchSize(doc, pathParts, ov))

\* the operand $regex is called with: the pattern and exp.$options || ""
RegexOperand(exp) ==
  Map(<<KV("$regex", MapGet(exp, "$regex")),
        KV("$options", IF Truthy(Get(exp, "$options"))
                       THEN Get(exp, "$options")
                       ELSE Str(""))>>)

\* the result one operator of the expression exp pushes
OperatorResult(op, exp, doc, path) ==
  IF op = "$not" THEN matchNot(doc, path, MapGet(exp, op))
  ELSE ValueOp(op, IF op = "$regex" THEN RegexOperand(exp) ELSE MapGet(exp, op),
               doc, Split(path))

\* the order in which matchCond looks for the operators of an expression
PushOrder ==
  <<"$eq", "$ne", "$gt", "$gte", "$lt", "$lte", "$in", "$nin", "$not",
    "$regex", "$mod", "$all", "$elemMatch", "$size">>

\* the results one key of the query pushes, in order
KeyResults(query, doc, path) ==
  IF path \in queryOps
  THEN CASE path = "$and" -> <<matchAnd(doc, path, Get(query, "$and"))>>
         [] path = "$or" -> <<matchOr(doc, path, Get(query, "$or"))>>
         [] path = "$nor" -> <<matchNor(doc, path, Get(query, "$nor"))>>
  ELSE LET expOrOv == Get(query, path)
           exp == expOrOv
       IN  IF checkAllExp(expOrOv)
           THEN LET ops == SelectSeq(PushOrder, LAMBDA op : MapHas(exp, op))
                IN  [i \in 1..Len(ops) |-> OperatorResult(ops[i], exp, doc, path)]
           ELSE <<B(matchEq(doc, Split(path), expOrOv))>>

\* the results matchCond pushes, key after key
Results(query, doc) ==
  Flatten([i \in 1..Len(ForInKeys(query)) |-> KeyResults(query, doc, ForInKeys(query)[i])])

\* a matchCond that answers for some key instead of every key
matchCondSome(query, doc) == Disj(Results(query, doc))

matchCond(query, doc) == Conj(Results(query, doc))

matchAnd(doc, path, ov) ==
  IF ~validateQueryOps(ov) THEN "false"
  ELSE EveryOutcome([i \in 1..Len(ov.a) |-> matchCond(ov.a[i], doc)])

matchOr(doc, path, ov) ==
  IF ~validateQueryOps(ov) THEN "false"
  ELSE SomeOutcome([i \in 1..Len(ov.a) |-> matchCond(ov.a[i], doc)])

matchNor(doc, path, ov) ==
  IF ~validateQueryOps(ov) THEN "false"
  ELSE Neg(SomeOutcome([i \in 1..Len(ov.a) |-> matchCond(ov.a[i], doc)]))

matchNot(doc, path, query) == Neg(matchCond(Map(<<KV(path, query)>>), doc))

matchElemMatch(doc, path, ov) ==
  IF Len(path) = 0
  THEN IF ~IsArray(doc) THEN "false"
       ELSE SomeOutcome([i \in 1..Len(doc.a) |-> matchCond(ov, doc.a[i])])
  ELSE LET key == path[1]
           rest == Tail(path)
       IN  IF IsObjectLike(doc) /\ HasKey(doc, key)
           THEN matchElemMatch(Get(doc, key), rest, ov)
           ELSE IF IsArray(doc)
           THEN IF IsIndexCandidate(key) /\ parseInt(key) < Len(doc.a)
                THEN matchElemMatch(doc.a[parseInt(key) + 1], rest, ov)
                ELSE SomeOutcome([i \in 1..Len(doc.a) |->
                                     matchElemMatch(doc.a[i], path, ov)])
           ELSE "false"

\* doc.find((dv) => deepEqual(dv, o)) || deepEqual(doc, o), as a truth value
FindOrEqual(doc, o) ==
  LET k == FirstTrue([i \in 1..Len(doc.a) |-> deepEqual(doc.a[i], o)])
  IN  (k # 0 /\ Truthy(doc.a[k])) \/ deepEqual(doc, o)

matchAll(doc, path, ov) ==
  IF ~validateAll(ov) THEN "false"
  ELSE IF Len(ov.a) = 0 THEN "false"
  ELSE IF validateAllElemMatch(ov)
  THEN LET elem_match_query ==
             Map(<<KV("$and", Arr([i \in 1..Len(ov.a) |->
                                     Map(<<KV(Join(path), ov.a[i])>>)]))>>)
       IN  matchCond(elem_match_query, doc)
  ELSE IF Len(path) = 0
  THEN IF ~IsArray(doc) THEN "false"
       ELSE B(\A j \in 1..Len(ov.a) : FindOrEqual(doc, ov.a[j]))
  ELSE LET key == path[1]
           rest == Tail(path)
       IN  IF IsObjectLike(doc) /\ HasKey(doc, key)
           THEN matchAll(Get(doc, key), rest, ov)
           ELSE IF IsArray(doc) /\ IsIndexCandidate(key) /\ parseInt(key) < Len(doc.a)
           THEN matchAll(doc.a[parseInt(key) + 1], rest, ov)
           ELSE IF IsArray(doc)
           THEN SomeOutcome([i \in 1..Len(doc.a) |-> matchAll(doc.a[i], path, ov)])
           ELSE "false"

(***************************************************************************)
(* validate: "ok", or the message of the TypeError it raises               *)
(***************************************************************************)
\* the first entry of rs that is not "ok", or "ok"
FirstError(rs) ==
  LET k == FirstTrue([i \in 1..Len(rs) |-> rs[i] # "ok"])
  IN  IF k = 0 THEN "ok" ELSE rs[k]

\* query instanceof Object
InstanceOfObject(query) == query.t \in {"map", "arr", "regex", "fn"}

RECURSIVE validate(_)
\* a ValidateKey that returns the validator's false instead of raising
ValidateKeyReturning(query, path) ==
  IF path \in queryOps /\ ~validateQueryOps(Get(query, path)) THEN "false"
  ELSE IF path \notin queryOps /\ checkAllExp(Get(query, path))
          /\ MapHas(Get(query, path), "$in") /\ ~validateInNin(MapGet(Get(query, path), "$in"))
  THEN "false"
  ELSE "ok"

ValidateKey(query, path) ==
  IF path \in queryOps
  THEN LET arg == Get(query, path)
       IN  IF ~validateQueryOps(arg)
           THEN path \o " operator value must be an array"
           ELSE FirstError([i \in 1..Len(arg.a) |-> validate(arg.a[i])])
  ELSE LET expOrOv == Get(query, path)
           exp == expOrOv
       IN  IF ~checkAllExp(expOrOv) THEN "ok"
           ELSE IF MapHas(exp, "$in") /\ ~validateInNin(MapGet(exp, "$in"))
           THEN "$in operator value must be an array"
           ELSE IF MapHas(exp, "$nin") /\ ~validateInNin(MapGet(exp, "$nin"))
           THEN "$nin operator value must be an array"
           ELSE IF MapHas(exp, "$all") /\ ~validateAll(MapGet(exp, "$all"))
           THEN "$all operator value must be an array"
           ELSE IF MapHas(exp, "$mod") /\ ~validateMod(MapGet(exp, "$mod"))
           THEN "$mod operator value must be an array of 2 numbers"
           ELSE IF MapHas(exp, "$size") /\ ~validateSize(MapGet(exp, "$size"))
           THEN "$size operator value must be a number"
           ELSE "ok"

\* a validate that does not look into the branches of a combinator
validateShallow(query) ==
  IF ~InstanceOfObject(query) \/ IsArray(query)
  THEN "query must be an object"
  ELSE LET keys == ForInKeys(query)
       IN  FirstError([i \in 1..Len(keys) |->
                         IF keys[i] \in queryOps /\ validateQueryOps(Get(query, keys[i]))
                         THEN "ok"
                         ELSE ValidateKey(query, keys[i])])

validate(query) ==
  IF ~InstanceOfObject(query) \/ IsArray(query)
  THEN "query must be an object"
  ELSE LET keys == ForInKeys(query)
       IN  FirstError([i \in 1..Len(keys) |-> ValidateKey(query, keys[i])])

(***************************************************************************)
(* Inputs: the documents a host passes to test, and the pieces queries     *)
(* are built from                                                          *)
(***************************************************************************)
MaxNum == 1
MaxLen == 2

Map1(k, v) == Map(<<KV(k, v)>>)
Map2(k1, v1, k2, v2) == Map(<<KV(k1, v1), KV(k2, v2)>>)

\* the pairs of an element of xs and an element of ys, xs-major
Pairs(xs, ys) ==
  [i \in 1..(Len(xs) * Len(ys)) |->
     <<xs[((i - 1) \div Len(ys)) + 1], ys[((i - 1) % Len(ys)) + 1]>>]

\* the sequences of n elements of xs
Tuples(xs, n) ==
  [i \in 1..(Len(xs) ^ n) |->
     [j \in 1..n |-> xs[(((i - 1) \div (Len(xs) ^ (j - 1))) % Len(xs)) + 1]]]

Nums == [i \in 1..(MaxNum + 1) |-> Num(i - 1)]

Scalars == Nums \o <<Null, Str("a")>>

\* the arrays of at most n numbers and nulls
RECURSIVE ArraysUpTo(_)
ArraysUpTo(n) ==
  IF n = 0 THEN <<Arr(<<>>)>>
  ELSE ArraysUpTo(n - 1)
         \o [i \in 1..Len(Tuples(Nums \o <<Null>>, n)) |->
               Arr(Tuples(Nums \o <<Null>>, n)[i])]

FlatArrays == ArraysUpTo(MaxLen)

\* negative numbers and numbers with a fractional part
SignedNumbers ==
  <<Num(0 - 4), Num(0 - 3), Num(0 - 2), Num(0 - 1), Half(0 - 4), Half(0 - 3),
    Half(0 - 2), Half(0 - 1), Half(0), Half(1), Num(2), Num(3)>>

\* what a field of a document holds
FieldValues ==
  LET keyed == Pairs(<<"b", "0", "1">>, Scalars)
      nums2 == Pairs(Nums, Nums)
  IN  Scalars \o FlatArrays
        \o <<Map(<<>>)>>
        \o [i \in 1..Len(keyed) |-> Map1(keyed[i][1], keyed[i][2])]
        \o [i \in 1..Len(FlatArrays) |-> Map1("b", FlatArrays[i])]
        \o [i \in 1..Len(nums2) |-> Map2("b", nums2[i][1], "c", nums2[i][2])]
        \o [i \in 1..Len(nums2) |-> Map2("c", nums2[i][2], "b", nums2[i][1])]
        \o [i \in 1..Len(Scalars) |-> Arr(<<Map1("b", Scalars[i])>>)]
        \o [i \in 1..Len(nums2) |->
              Arr(<<Map1("b", nums2[i][1]), Map1("b", nums2[i][2])>>)]
        \o [i \in 1..Len(Nums) |-> Arr(<<Arr(<<Nums[i]>>)>>)]
        \o [i \in 1..Len(nums2) |-> Arr(<<nums2[i][1], Map1("0", nums2[i][2])>>)]
        \o <<Str("A"), Str("ab"), Arr(<<Str("a"), Str("b")>>),
             Map2("b", Num(0), "$eq", Num(1)), Map1(" $size", Num(1)),
             Map1("$foo", Num(0)), Map1("$eq", Num(0))>>
        \o <<Str("b\na"), Arr(<<Arr(<<Str("a")>>)>>), Arr(<<Num(0), Str("A")>>)>>
        \o SignedNumbers
        \o <<Arr(<<Half(0 - 3), Num(1)>>), Arr(<<Str("a"), Num(0 - 2)>>),
             Map1("b", Half(0 - 3)), Map1("b", Num(0 - 2))>>

\* the array a host filters through the predicate
Inputs ==
  LET scalars2 == Pairs(Scalars, Scalars)
      nums2 == Pairs(Nums, Nums)
  IN  Scalars
        \o <<Map(<<>>)>>
        \o [i \in 1..Len(FieldValues) |-> Map1("a", FieldValues[i])]
        \o [i \in 1..Len(scalars2) |-> Map2("a", scalars2[i][1], "b", scalars2[i][2])]
        \o [i \in 1..Len(nums2) |-> Arr(<<nums2[i][1], Map1("a", nums2[i][2])>>)]

Paths == {"a", "b", "a.b", "a.0", "a.1", "a.length", "a.constructor"}

(***************************************************************************)
(* A RegExp operand with the g flag.  ov.test(doc) in matchEq is a call on *)
(* the RegExp object the query holds: with the g flag it searches from     *)
(* ov.lastIndex and writes ov.lastIndex.  The operators below are matchEq  *)
(* and matchCond with that one number threaded through the calls in the    *)
(* order the code makes them; a result is [r |-> _, li |-> lastIndex].     *)
(* Queries of the model hold at most one such RegExp, as the operand of an *)
(* implicit $eq, of $eq or of $ne under a top-level path; every other push *)
(* of matchCond reads and writes no state.                                 *)
(***************************************************************************)
Res(r, li) == [r |-> r, li |-> li]

IsGlobal(v) == v.t = "regex" /\ Includes(v.flags, "g")

\* the pattern src matches str at the 1-based position pos
RegexMatchesAt(src, flags, str, pos) ==
  LET atStart == Len(src) > 0 /\ Head(src) = "^"
      s1 == IF atStart THEN Tail(src) ELSE src
      atEnd == Len(s1) > 0 /\ CharAt(s1, Len(s1)) = "$"
      body == IF atEnd THEN SubSeq(s1, 1, Len(s1) - 1) ELSE s1
      multi == Includes(flags, "m")
  IN  /\ pos \in 1..(Len(str) - Len(body) + 1)
      /\ \A j \in 1..Len(body) :
            PatternCharMatches(CharAt(body, j), CharAt(str, pos + j - 1), flags)
      /\ \/ ~atStart
         \/ pos = 1
         \/ multi /\ CharAt(str, pos - 1) = "\n"
      /\ \/ ~atEnd
         \/ pos + Len(body) - 1 = Len(str)
         \/ multi /\ CharAt(str, pos + Len(body)) = "\n"

\* the length of what the pattern src matches
MatchLength(src) ==
  Len(src) - (IF Len(src) > 0 /\ Head(src) = "^" THEN 1 ELSE 0)
           - (IF Len(src) > 0 /\ CharAt(src, Len(src)) = "$" THEN 1 ELSE 0)

\* ov.test(str) with ov.lastIndex = li: without the g flag lastIndex is neither
\* read nor written; with it the search starts at li, a match leaves lastIndex
\* behind the match and a failure leaves 0
RegexTestAt(ov, str, li) ==
  IF ~IsGlobal(ov) THEN Res(RegexTest(ov.src, ov.flags, str), li)
  ELSE IF \E pos \in (li + 1)..(Len(str) + 1) : RegexMatchesAt(ov.src, ov.flags, str, pos)
  THEN Res(TRUE,
           (CHOOSE pos \in (li + 1)..(Len(str) + 1) :
              /\ RegexMatchesAt(ov.src, ov.flags, str, pos)
              /\ \A q \in (li + 1)..(pos - 1) : ~RegexMatchesAt(ov.src, ov.flags, str, q))
             - 1 + MatchLength(ov.src))
  ELSE Res(FALSE, 0)

RECURSIVE matchEqAt(_, _, _, _)
RECURSIVE someEqAt(_, _, _, _, _)

\* x, or when x is false the rest of doc.some((d) => matchEq(d, path, ov))
OrNextEqAt(x, docs, i, path, ov) ==
  IF x.r THEN x ELSE someEqAt(docs, i + 1, path, ov, x.li)

\* doc.some((d) => matchEq(d, path, ov)) from the i-th element on
someEqAt(docs, i, path, ov, li) ==
  IF i > Len(docs) THEN Res(FALSE, li)
  ELSE OrNextEqAt(matchEqAt(docs[i], path, ov, li), docs, i, path, ov)

\* t, the result of ov.test(doc), or deepEqual(doc, ov) when it is false
TestOrDeepEqual(t, doc, ov) == IF t.r THEN t ELSE Res(deepEqual(doc, ov), t.li)

\* matchEq at the leaf once the elements of an array leaf gave s
EqLeafAt(s, doc, ov) ==
  IF s.r THEN s
  ELSE IF ov.t = "regex" /\ doc.t = "str"
  THEN TestOrDeepEqual(RegexTestAt(ov, doc.s, s.li), doc, ov)
  ELSE Res(deepEqual(doc, ov), s.li)

matchEqAt(doc, path, ov, li) ==
  IF Len(path) = 0
  THEN EqLeafAt(IF IsArray(doc) THEN someEqAt(doc.a, 1, path, ov, li) ELSE Res(FALSE, li),
                doc, ov)
  ELSE LET key == path[1]
           rest == Tail(path)
       IN  IF IsObjectLike(doc) /\ HasKey(doc, key)
           THEN matchEqAt(Get(doc, key), rest, ov, li)
           ELSE IF IsArray(doc)
           THEN IF IsIndexCandidate(key) /\ parseInt(key) < Len(doc.a)
                THEN matchEqAt(doc.a[parseInt(key) + 1], rest, ov, li)
                ELSE someEqAt(doc.a, 1, path, ov, li)
           ELSE Res(isNil(ov), li)

\* !x.r, lastIndex as x left it
NotAt(x) == Res(~x.r, x.li)

\* the boolean x.r as an outcome
OutAt(x) == Res(B(x.r), x.li)

\* the query holds a RegExp with the g flag as an operand of $eq or $ne
HoldsGlobal(query) ==
  /\ query.t = "map"
  /\ \E i \in 1..Len(query.m) :
        \/ IsGlobal(query.m[i].v)
        \/ /\ query.m[i].v.t = "map"
           /\ \E j \in 1..Len(query.m[i].v.m) : IsGlobal(query.m[i].v.m[j].v)

\* the calls matchCond pushes the results of, in order: [path, op], with op
\* "" for a combinator and for an implicit $eq
PushesOfKey(query, path) ==
  IF path \notin queryOps /\ checkAllExp(Get(query, path))
  THEN [i \in 1..Len(SelectSeq(PushOrder, LAMBDA op : MapHas(Get(query, path), op))) |->
          [path |-> path,
           op |-> SelectSeq(PushOrder, LAMBDA op : MapHas(Get(query, path), op))[i]]]
  ELSE <<[path |-> path, op |-> ""]>>

\* the steps of matchCond(query, doc) that can differ in lastIndex: its pushes
\* one by one for a query that holds a RegExp with the g flag, and the whole
\* call at once for any other
Pushes(query) ==
  IF HoldsGlobal(query)
  THEN Flatten([i \in 1..Len(ForInKeys(query)) |-> PushesOfKey(query, ForInKeys(query)[i])])
  ELSE <<[path |-> "", op |-> "matchCond"]>>

\* one operator of an expression as an expression of its own; $options
\* stays with the $regex it modifies
OneOperator(exp, op) ==
  IF op = "$regex" /\ MapHas(exp, "$options")
  THEN Map2("$regex", MapGet(exp, "$regex"), "$options", MapGet(exp, "$options"))
  ELSE Map1(op, MapGet(exp, op))

\* the query whose matchCond makes the one push p of matchCond(query, doc)
PushQuery(query, p) ==
  IF p.op = "matchCond" THEN query
  ELSE IF p.op = "" THEN Map1(p.path, Get(query, p.path))
  ELSE Map1(p.path, OneOperator(Get(query, p.path), p.op))

\* one push of matchCond with lastIndex li: its outcome and lastIndex after it
PushAt(query, doc, p, li) ==
  IF p.op = "$eq"
  THEN OutAt(matchEqAt(doc, Split(p.path), MapGet(Get(query, p.path), "$eq"), li))
  ELSE IF p.op = "$ne"
  THEN OutAt(NotAt(matchEqAt(doc, Split(p.path), MapGet(Get(query, p.path), "$ne"), li)))
  ELSE IF p.op = "" /\ p.path \notin queryOps
  THEN OutAt(matchEqAt(doc, Split(p.path), Get(query, p.path), li))
  ELSE Res(matchCond(PushQuery(query, p), doc), li)

RECURSIVE RunPushes(_, _, _, _, _)

\* results after the push that gave x; an exception ends matchCond
AfterPush(x, query, doc, i, rs) ==
  IF x.r = "throw" THEN Res(Append(rs, x.r), x.li)
  ELSE RunPushes(query, doc, i + 1, Append(rs, x.r), x.li)

\* the pushes of matchCond from the i-th on: r is the array results
RunPushes(query, doc, i, rs, li) ==
  IF i > Len(Pushes(query)) THEN Res(rs, li)
  ELSE AfterPush(PushAt(query, doc, Pushes(query)[i], li), query, doc, i, rs)

\* matchCond(query, doc) with lastIndex li
matchCondAt(query, doc, li) == RunPushes(query, doc, 1, <<>>, li)

(***************************************************************************)
(* The predicate object: Query(query) binds the query; test(doc) and       *)
(* validate() are its two methods.  The host filters its inputs through    *)
(* test, one document after the other, and may call validate at any time.  *)
(***************************************************************************)
VARIABLES query, pos, doc, result, validated, lastIndex

vars == <<query, pos, doc, result, validated, lastIndex>>

\* the state Query(q) returns: nothing tested, nothing validated
Constructed(q) ==
  /\ query = q
  /\ pos = 0
  /\ doc = Undef
  /\ result = "none"
  /\ validated = "none"
  /\ lastIndex = 0

\* test returns or raises what the results x.r of matchCond make, the RegExp
\* of the query keeping the lastIndex x.li
Returned(x) ==
  /\ result' = Conj(x.r)
  /\ lastIndex' = x.li

\* predicate.test(d)
Test(d) ==
  /\ doc' = d
  /\ Returned(matchCondAt(query, d, lastIndex))
  /\ UNCHANGED <<query, validated>>

\* inputs.filter(predicate.test) reaches its next element; an exception of
\* test leaves filter, and no further element is tested
FilterStep ==
  /\ pos < Len(Inputs)
  /\ result # "throw"
  /\ Test(Inputs[pos + 1])
  /\ pos' = pos + 1

\* predicate.validate(): returns the predicate itself or raises a TypeError
Validate ==
  /\ validated' = IF validate(query) = "ok" THEN "self" ELSE validate(query)
  /\ UNCHANGED <<query, pos, doc, result, lastIndex>>

Next ==
  \/ FilterStep
  \/ Validate

Tested == result # "none"

IsMapQuery == query.t = "map"

(***************************************************************************)
(* C1: implicit $and over the keys of a query                              *)
(***************************************************************************)
ConjClauses ==
  { KV("a", Num(0)), KV("a", Null), KV("b", Num(1)), KV("b", Str("a")),
    KV("a.b", Map1("$gt", Num(0))),
    KV("a", Map2("$gte", Num(0), "$lte", Num(0))),
    KV("a", Map2("$ne", Num(0), "$in", Arr(<<Num(0), Num(1)>>))),
    KV("a", Map2("$regex", Str("a"), "$options", Str("i"))),
    KV("a", Map2("$options", Str("i"), "$regex", Str("^a$"))),
    KV("b", Map1("$regex", Str("("))),
    KV("a", Map1("$options", Str("i"))),
    KV("$or", Arr(<<Map1("a", Num(0)), Map1("b", Num(1))>>)),
    KV("$and", Arr(<<Map1("a", Num(1))>>)),
    KV("$nor", Arr(<<Map1("b", Null)>>)) }

ConjQueries ==
  {Map(<<>>)}
    \cup {Map(<<c>>) : c \in ConjClauses}
    \cup {Map(<<p[1], p[2]>>) : p \in {r \in ConjClauses \X ConjClauses : r[1].k # r[2].k}}

InitConj == \E q \in ConjQueries : Constructed(q)

SpecConj == InitConj /\ [][Next]_vars

\* the outcome of one top-level key taken as a query of its own; an
\* expression is taken one operator at a time
KeyAlone(q, d, i) ==
  LET k == q.m[i].k
      v == q.m[i].v
  IN  IF k \notin queryOps /\ checkAllExp(v)
      THEN Conj([j \in 1..Len(v.m) |-> matchCond(Map1(k, OneOperator(v, v.m[j].k)), d)])
      ELSE matchCond(Map1(k, v), d)

\* C1: test(d) is the conjunction of the results of the query's top-level keys,
\* each combinator clause and each path clause taken alone, the operators of one
\* expression taken one by one at the same path; a query with no keys matches
\* every document.
C1_ImplicitAnd ==
  (Tested /\ IsMapQuery) =>
     /\ result = Conj([i \in 1..Len(query.m) |-> KeyAlone(query, doc, i)])
     /\ Len(query.m) = 0 => result = "true"

\* a query of a path clause and a combinator clause fails on a document that
\* one of its two clauses matches
C1_Witness ==
  /\ Tested /\ IsMapQuery /\ Len(query.m) = 2
  /\ \E i \in 1..2 : query.m[i].k \in queryOps
  /\ \E i \in 1..2 : query.m[i].k \notin queryOps /\ checkAllExp(query.m[i].v)
  /\ result = "false"
  /\ \E i \in 1..2 : KeyAlone(query, doc, i) = "true"

(***************************************************************************)
(* Queries of one path clause: {p: e} for a path p and a one-operator      *)
(* expression or an implicit-$eq value e                                   *)
(***************************************************************************)
PathExps ==
  {Map1("$eq", v) : v \in {Num(0), Num(1), Null, Undef, Str("a"), Arr(<<Num(0)>>),
                           Map1("b", Num(0))}}
    \cup {Num(1), Null, Arr(<<Num(0)>>), Map1("b", Num(0)), Map(<<>>),
          Map2("b", Num(0), "c", Num(1)), Regex("a", ""), Regex("^A$", "i")}
    \cup {Map1("$in", v) : v \in {Arr(<<Num(1)>>), Arr(<<Null, Num(0)>>), Arr(<<>>),
                                  Arr(<<Undef>>)}}
    \cup {Map1(op, v) : op \in {"$gt", "$gte", "$lt", "$lte"},
                        v \in {Num(0), Null, Undef, Str("a")}}
    \cup {Map1("$regex", v) : v \in {Str("a"), Str("(")}}
    \cup {Map1("$mod", Arr(<<Num(2), Num(1)>>))}
    \cup {Map1("$size", v) : v \in {Num(1), Num(2)}}
    \cup {Map1("$elemMatch", v) : v \in {Map1("b", Num(0)), Map1("$gte", Num(1))}}
    \cup {Map1("$all", v) : v \in {Arr(<<Num(0)>>), Arr(<<Num(0), Num(1)>>)}}

PathQueries == {Map1(p, e) : p \in Paths, e \in PathExps}

InitPath == \E q \in PathQueries : Constructed(q)

SpecPath == InitPath /\ [][Next]_vars

\* the path, the operator and the operand of a one-clause query
ThePath == query.m[1].k
TheExp == query.m[1].v
PathOp == IF checkAllExp(TheExp) THEN TheExp.m[1].k ELSE "$eq"
PathOperand ==
  IF ~checkAllExp(TheExp) THEN TheExp
  ELSE IF PathOp = "$regex" THEN RegexOperand(TheExp)
  ELSE TheExp.m[1].v

\* what test returned is what the operator returned at the document
AtDocument == result = ValueOp(PathOp, PathOperand, doc, Split(ThePath))

(***************************************************************************)
(* C2: one traversal for every operator                                    *)
(***************************************************************************)
RECURSIVE FollowsTraversal(_, _, _, _)
FollowsTraversal(op, ov, cur, parts) ==
  IF Len(parts) = 0 THEN TRUE
  ELSE LET key == Head(parts)
           rest == Tail(parts)
       IN  IF cur.t = "map" /\ MapHas(cur, key)
           THEN /\ ValueOp(op, ov, cur, parts) = ValueOp(op, ov, MapGet(cur, key), rest)
                /\ FollowsTraversal(op, ov, MapGet(cur, key), rest)
           ELSE IF IsArray(cur) /\ ~IsIndexCandidate(key)
           THEN /\ ValueOp(op, ov, cur, parts)
                     = SomeOutcome([i \in 1..Len(cur.a) |-> ValueOp(op, ov, cur.a[i], parts)])
                /\ \A i \in 1..Len(cur.a) : FollowsTraversal(op, ov, cur.a[i], parts)
           ELSE TRUE

\* C2: every value-level operator follows the same traversal: at a map that
\* contains the first segment it recurses into that entry with the remaining
\* segments; at an array with a segment that is no index candidate it matches
\* iff some element matches with the unchanged segments; and all operators
\* reach the same leaves, so a path with a leaf equal to a number n has a
\* leaf that is at least n.
C2_CommonTraversal ==
  Tested =>
    /\ AtDocument
    /\ FollowsTraversal(PathOp, PathOperand, doc, Split(ThePath))
    /\ (PathOp = "$eq" /\ PathOperand.t = "num" /\ result = "true")
         => matchCond(Map1(ThePath, Map1("$gte", PathOperand)), doc) = "true"

(***************************************************************************)
(* C3: an index candidate at an array                                      *)
(***************************************************************************)
RECURSIVE FollowsIndexRule(_, _, _, _)
FollowsIndexRule(op, ov, cur, parts) ==
  IF Len(parts) = 0 THEN TRUE
  ELSE LET key == Head(parts)
           rest == Tail(parts)
       IN  IF cur.t = "map" /\ MapHas(cur, key)
           THEN FollowsIndexRule(op, ov, MapGet(cur, key), rest)
           ELSE IF IsArray(cur) /\ IsIndexCandidate(key)
           THEN LET idx == parseInt(key)
                    indexed == IF idx < Len(cur.a)
                               THEN <<ValueOp(op, ov, cur.a[idx + 1], rest)>>
                               ELSE <<>>
                    fanOut == [i \in 1..Len(cur.a) |-> ValueOp(op, ov, cur.a[i], parts)]
                IN  /\ ValueOp(op, ov, cur, parts) = SomeOutcome(indexed \o fanOut)
                    /\ idx < Len(cur.a) => FollowsIndexRule(op, ov, cur.a[idx + 1], rest)
                    /\ \A i \in 1..Len(cur.a) : FollowsIndexRule(op, ov, cur.a[i], parts)
           ELSE IF IsArray(cur)
           THEN \A i \in 1..Len(cur.a) : FollowsIndexRule(op, ov, cur.a[i], parts)
           ELSE TRUE

\* C3: at an array with an index candidate as first segment the operator is
\* evaluated on the element at that index, if in range, with the remaining
\* segments; when that does not match, or the index is out of range, the
\* operator still matches if it matches some element with the unchanged segments.
C3_IndexThenFanOut ==
  Tested => AtDocument /\ FollowsIndexRule(PathOp, PathOperand, doc, Split(ThePath))

(***************************************************************************)
(* C4: the absence policy                                                  *)
(***************************************************************************)
AbsencePolicy(op, ov) ==
  CASE op \in {"$eq", "$gte", "$lte"} -> ov \in {Null, Undef}
    [] op = "$in" -> IsArray(ov) /\ \E i \in 1..Len(ov.a) : ov.a[i] \in {Null, Undef}
    [] OTHER -> FALSE

\* the path is absent at cur: cur is neither a map that contains the next
\* segment nor an array
AbsentAt(cur, parts) ==
  /\ Len(parts) > 0
  /\ ~IsArray(cur)
  /\ ~(cur.t = "map" /\ MapHas(cur, Head(parts)))

RECURSIVE FollowsAbsencePolicy(_, _, _, _)
FollowsAbsencePolicy(op, ov, cur, parts) ==
  IF Len(parts) = 0 THEN TRUE
  ELSE LET key == Head(parts)
           rest == Tail(parts)
       IN  IF AbsentAt(cur, parts)
           THEN ValueOp(op, ov, cur, parts) = B(AbsencePolicy(op, ov))
           ELSE IF cur.t = "map"
           THEN FollowsAbsencePolicy(op, ov, MapGet(cur, key), rest)
           ELSE /\ \A i \in 1..Len(cur.a) : FollowsAbsencePolicy(op, ov, cur.a[i], parts)
                /\ (IsIndexCandidate(key) /\ parseInt(key) < Len(cur.a))
                      => FollowsAbsencePolicy(op, ov, cur.a[parseInt(key) + 1], rest)

\* C4: where the traversal reaches a value that is neither a map containing the
\* next segment nor an array, $eq, $gte and $lte are true iff the operand is
\* null or undefined, $in is true iff its list contains null or undefined, and
\* $gt, $lt, $regex, $mod, $size, $elemMatch and $all are false.
C4_AbsencePolicy ==
  Tested => AtDocument /\ FollowsAbsencePolicy(PathOp, PathOperand, doc, Split(ThePath))

(***************************************************************************)
(* C5: $eq at the leaf                                                     *)
(***************************************************************************)
\* the path leads through maps to a value
RECURSIVE ReachesLeaf(_, _)
ReachesLeaf(cur, parts) ==
  \/ Len(parts) = 0
  \/ /\ cur.t = "map" /\ MapHas(cur, Head(parts))
     /\ ReachesLeaf(MapGet(cur, Head(parts)), Tail(parts))

RECURSIVE LeafOf(_, _)
LeafOf(cur, parts) ==
  IF Len(parts) = 0 THEN cur ELSE LeafOf(MapGet(cur, Head(parts)), Tail(parts))

EqualsOperand(x, v) ==
  \/ deepEqual(x, v)
  \/ v.t = "regex" /\ x.t = "str" /\ RegexTest(v.src, v.flags, x.s)

EqLeaf(leaf, v) ==
  \/ EqualsOperand(leaf, v)
  \/ IsArray(leaf) /\ \E i \in 1..Len(leaf.a) : EqualsOperand(leaf.a[i], v)

RECURSIVE HasRegexOrArray(_)
HasRegexOrArray(v) ==
  \/ v.t \in {"regex", "arr"}
  \/ v.t = "map" /\ \E i \in 1..Len(v.m) : HasRegexOrArray(v.m[i].v)

\* C5: at the leaf $eq, explicit or implicit, matches exactly when the leaf
\* deep-equals the operand, or the operand is a regex and the leaf a string it
\* matches, or the leaf is an array with an element that deep-equals the operand
\* (or is a string the regex operand matches); in particular {p: {$eq: v}}
\* matches the document {p: v} for every v without regex or array leaves.
C5_EqLeaf ==
  (Tested /\ PathOp = "$eq") =>
    /\ ReachesLeaf(doc, Split(ThePath))
         => result = B(EqLeaf(LeafOf(doc, Split(ThePath)), PathOperand))
    /\ (doc = Map1(ThePath, PathOperand) /\ ~HasRegexOrArray(PathOperand))
         => result = "true"

(***************************************************************************)
(* C6: expression or implicit $eq                                          *)
(***************************************************************************)
ExpValues ==
  { Map1("$eq", Num(0)), Map2("$gte", Num(0), "$lte", Num(0)),
    Map2("$ne", Num(1), "$in", Arr(<<Num(0), Num(1)>>)),
    Map2("$regex", Str("a"), "$options", Str("i")), Map1("$options", Str("i")),
    Map1("$not", Map1("$eq", Num(0))), Map1("$size", Num(1)),
    Map(<<>>), Map2("b", Num(0), "$eq", Num(1)), Map2("$eq", Num(1), "b", Num(0)),
    Map1(" $size", Num(1)), Map1("$foo", Num(0)), Map2("$eq", Num(0), "$foo", Num(0)),
    Map1("b", Num(0)), Arr(<<Num(0)>>), Arr(<<>>), Regex("a", ""),
    Num(0), Str("a"), Bool(TRUE), Null, Undef }

ExpQueries == {Map1(p, v) : p \in {"a", "b", "a.b"}, v \in ExpValues}

InitExp == \E q \in ExpQueries : Constructed(q)

SpecExp == InitExp /\ [][Next]_vars

\* a plain, non-empty map whose every key is a known condition operator
IsExpression(v) ==
  /\ v.t = "map"
  /\ Len(v.m) > 0
  /\ \A i \in 1..Len(v.m) : v.m[i].k \in condOps

\* each operator the expression contains, applied at the path; $options
\* belongs to $regex and is no operator of its own
EachOperator(exp, d, path) ==
  [j \in 1..Len(exp.m) |->
     IF exp.m[j].k = "$options" THEN "true"
     ELSE OperatorResult(exp.m[j].k, exp, d, path)]

\* C6: the value of a path is evaluated as an expression, each operator it
\* contains applied at that path, exactly when it is a plain non-empty map whose
\* every key is a known condition operator; any other value (the empty map, a
\* map mixing operators with other keys, a map with a key such as " $size" or
\* an unsupported $-operator, an array, a regex, a scalar, null) is evaluated
\* as implicit $eq against the whole value.
C6_ExpressionOrImplicitEq ==
  Tested =>
    result = IF IsExpression(TheExp)
             THEN Conj(EachOperator(TheExp, doc, ThePath))
             ELSE B(matchEq(doc, Split(ThePath), TheExp))

\* the value {b: 0, $eq: 1} mixes an operator with another key: it matches the
\* document whose a is that very map
C6_Witness ==
  /\ Tested /\ ThePath = "a"
  /\ TheExp = Map2("b", Num(0), "$eq", Num(1))
  /\ ~IsExpression(TheExp)
  /\ doc = Map1("a", TheExp)
  /\ result = "true"

(***************************************************************************)
(* C7: $ne and $not                                                        *)
(***************************************************************************)
NegExps ==
  {Map1("$ne", v) : v \in {Num(0), Num(1), Null, Undef, Str("a"), Arr(<<Num(0)>>),
                           Map1("b", Num(0))}}
    \cup {Map1("$not", e) :
            e \in {Map1("$eq", Num(0)), Map1("$gt", Num(0)), Map1("$ne", Null),
                   Map2("$gte", Num(0), "$lte", Num(0)),
                   Map2("$gte", Num(1), "$size", Num(2)),
                   Map1("$regex", Str("a")), Map1("$regex", Str("(")),
                   Map1("$in", Arr(<<Null>>)), Map1("$not", Map1("$eq", Num(0))),
                   Num(0)}}

NegQueries == {Map1(p, e) : p \in Paths, e \in NegExps}

InitNeg == \E q \in NegQueries : Constructed(q)

SpecNeg == InitNeg /\ [][Next]_vars

\* the path leads, through maps that contain its segments, to a value that is
\* neither a map containing the next segment nor an array
RECURSIVE AbsentAlongMaps(_, _)
AbsentAlongMaps(cur, parts) ==
  /\ Len(parts) > 0
  /\ IF cur.t = "map" /\ MapHas(cur, Head(parts))
     THEN AbsentAlongMaps(MapGet(cur, Head(parts)), Tail(parts))
     ELSE ~IsArray(cur)

\* C7: {p: {$ne: v}} matches d iff {p: {$eq: v}} does not match d, so that a
\* document without the path matches $ne unless v is null (or undefined); and
\* {p: {$not: e}} matches d iff {p: e} does not match d, the operators inside
\* $not being ANDed first and then negated.  To match is to return true.
C7_Negation ==
  Tested =>
    /\ PathOp = "$ne" =>
         /\ result = "true"
              <=> matchCond(Map1(ThePath, Map1("$eq", PathOperand)), doc) # "true"
         /\ AbsentAlongMaps(doc, Split(ThePath))
              => (result = "true" <=> PathOperand \notin {Null, Undef})
    /\ PathOp = "$not" =>
         /\ result = "true" <=> matchCond(Map1(ThePath, PathOperand), doc) # "true"
         /\ IsExpression(PathOperand)
              => (result = "true"
                    <=> Conj(EachOperator(PathOperand, doc, ThePath)) # "true")

(***************************************************************************)
(* C8: $nin and $in                                                        *)
(***************************************************************************)
InOperands ==
  { Arr(<<>>), Arr(<<Num(0)>>), Arr(<<Null>>), Arr(<<Num(0), Num(1)>>),
    Arr(<<Str("a"), Null>>), Arr(<<Arr(<<Num(0)>>)>>), Arr(<<Regex("a", "")>>),
    Num(0), Null, Undef, Str("a"), Map1("b", Num(0)), Map(<<>>) }

InQueries == {Map1(p, Map1(op, v)) : p \in Paths, op \in {"$in", "$nin"}, v \in InOperands}

InitIn == \E q \in InQueries : Constructed(q)

SpecIn == InitIn /\ [][Next]_vars

\* what {p: {$in: v}} answers on the document, negated
NotIn == Neg(matchCond(Map1(ThePath, Map1("$in", PathOperand)), doc))

\* C8 (as stated): for every document d, path p and operand v of whatever
\* shape, {p: {$nin: v}} matches d iff {p: {$in: v}} does not match d.
C8_NinAnyShape == (Tested /\ PathOp = "$nin") => result = NotIn

\* C8 (amended): for every document d, path p and list operand v,
\* {p: {$nin: v}} matches d iff {p: {$in: v}} does not match d.
C8_NinOfLists == (Tested /\ PathOp = "$nin" /\ IsArray(PathOperand)) => result = NotIn

\* $nin of a non-empty list matches a document that has the path
C8_Witness ==
  /\ Tested /\ PathOp = "$nin"
  /\ IsArray(PathOperand) /\ Len(PathOperand.a) > 0
  /\ ReachesLeaf(doc, Split(ThePath))
  /\ result = "true"

(***************************************************************************)
(* C9: $and, $or, $nor                                                     *)
(***************************************************************************)
SubQueries ==
  <<Map1("a", Num(0)), Map1("b", Str("a")), Map1("a", Map1("$gt", Num(0))),
    Map1("b", Map1("$regex", Str("("))), Map(<<>>)>>

CombElements ==
  {SubQueries[i] : i \in 1..Len(SubQueries)}
    \cup {Map1(op, Arr(<<SubQueries[1], SubQueries[2]>>)) : op \in {"$and", "$or"}}
    \cup {Map1(op, Arr(<<SubQueries[4], SubQueries[3]>>)) : op \in {"$and", "$or"}}

CombLists ==
  {<<>>} \cup {<<x>> : x \in CombElements} \cup {<<x, y>> : x, y \in CombElements}

CombQueries == {Map1(op, Arr(l)) : op \in queryOps, l \in CombLists}

InitComb == \E q \in CombQueries : Constructed(q)

SpecComb == InitComb /\ [][Next]_vars

\* the combinator and the list of a one-combinator query
TheComb == query.m[1].k
TheList == query.m[1].v.a

Matches(q, d) == matchCond(q, d) = "true"

\* the orders of a list of n elements
Orders(n) == {f \in [1..n -> 1..n] : \A i, j \in 1..n : i # j => f[i] # f[j]}

\* the list with every nested op list spliced in place
RECURSIVE Spliced(_, _)
Spliced(op, l) ==
  IF Len(l) = 0 THEN <<>>
  ELSE (IF Head(l).t = "map" /\ MapKeys(Head(l)) = <<op>> /\ IsArray(MapGet(Head(l), op))
        THEN MapGet(Head(l), op).a
        ELSE <<Head(l)>>) \o Spliced(op, Tail(l))

\* C9: $and L matches d iff every sub-query of L matches d, $or L iff some
\* sub-query of L matches d, and $nor L iff $or L does not; so $and [] is true,
\* $or [] false and $nor [] true; and the result of $and, likewise of $or, is
\* unchanged by reordering its list and by flattening a nested $and (likewise
\* $or) into it.
C9_CombinatorAlgebra ==
  Tested =>
    /\ TheComb = "$and" =>
         (result = "true" <=> \A i \in 1..Len(TheList) : Matches(TheList[i], doc))
    /\ TheComb = "$or" =>
         (result = "true" <=> \E i \in 1..Len(TheList) : Matches(TheList[i], doc))
    /\ TheComb = "$nor" =>
         (result = "true" <=> ~Matches(Map1("$or", Arr(TheList)), doc))
    /\ Len(TheList) = 0 => result = B(TheComb # "$or")
    /\ TheComb \in {"$and", "$or"} =>
         /\ \A f \in Orders(Len(TheList)) :
              matchCond(Map1(TheComb, Arr([i \in 1..Len(TheList) |-> TheList[f[i]]])), doc)
                = result
         /\ matchCond(Map1(TheComb, Arr(Spliced(TheComb, TheList))), doc) = result

(***************************************************************************)
(* C10: test is total                                                      *)
(***************************************************************************)
TotalExps ==
  {Map1("$mod", v) : v \in {Num(2), Arr(<<Str("a"), Num(0)>>), Arr(<<Num(2), Num(0)>>),
                            Arr(<<Num(0), Num(0)>>), Null}}
    \cup {Map1("$regex", v) : v \in {Str("a"), Str("("), Num(0), Null}}
    \cup {Map2("$regex", Str("a"), "$options", v) : v \in {Str("x"), Num(5), Null, Num(0)}}
    \cup {Map1("$size", v) : v \in {Num(1), Str("1"), Null}}
    \cup {Map1(op, v) : op \in {"$in", "$nin", "$all"}, v \in {Num(0), Null, Map(<<>>)}}
    \cup {Map1("$elemMatch", v) : v \in {Num(0), Null, Map1("b", Num(0))}}
    \cup {Map1("$not", v) : v \in {Num(0), Null, Map1("$regex", Str("("))}}
    \cup {Map1(op, v) : op \in {"$gt", "$lte"}, v \in {Map(<<>>), Arr(<<>>), Bool(TRUE)}}

TotalQueries ==
  {Null, Undef, Num(0), Str("a"), Bool(TRUE), Arr(<<>>), Arr(<<Map1("a", Num(0))>>),
   Map(<<>>)}
    \cup {Map1(p, e) : p \in {"a", "a.b"}, e \in TotalExps}
    \cup {Map1(op, v) : op \in queryOps,
                        v \in {Num(0), Null, Map(<<>>), Arr(<<Null, Num(0)>>),
                               Arr(<<Map1("a", Map1("$regex", Str("(")))>>)}}

InitTotal == \E q \in TotalQueries : Constructed(q)

SpecTotal == InitTotal /\ [][Next]_vars

\* a 2-number list
IsModOperand(v) ==
  IsArray(v) /\ Len(v.a) = 2 /\ v.a[1].t = "num" /\ v.a[2].t = "num"

\* the one clause of the query meets a type mismatch on the document: a
\* combinator without a list, or at the path a of a document whose a is no array
\* an operator with an operand of invalid shape or a leaf of the wrong type
IllTyped ==
  /\ IsMapQuery /\ Len(query.m) = 1
  /\ \/ ThePath \in queryOps /\ ~IsArray(TheExp)
     \/ /\ ThePath = "a" /\ checkAllExp(TheExp)
        /\ doc.t = "map" /\ MapHas(doc, "a") /\ ~IsArray(MapGet(doc, "a"))
        /\ \/ PathOp = "$mod"
                /\ (~IsModOperand(TheExp.m[1].v) \/ MapGet(doc, "a").t # "num")
           \/ PathOp = "$regex" /\ MapGet(doc, "a").t # "str"
           \/ PathOp = "$size"
           \/ PathOp \in {"$in", "$nin", "$all"} /\ ~IsArray(TheExp.m[1].v)

\* C10: test is total: for any query value and any document it returns a
\* boolean and never raises; a type mismatch met during matching ($mod against
\* a non-number, $regex against a non-string, $size against a non-array, an
\* operand of invalid shape) makes the clause false.
C10_Total ==
  Tested =>
    /\ result \in {"true", "false"}
    /\ IllTyped => result = "false"

(***************************************************************************)
(* C11: a malformed operator argument makes its clause false               *)
(***************************************************************************)
MalCombArgs == {Num(0), Null, Str("a"), Map(<<>>), Map1("a", Num(0))}

MalExps ==
  {Map1(op, v) : op \in {"$in", "$nin"},
                 v \in {Num(0), Null, Str("a"), Map1("0", Num(0))}}
    \cup {Map1("$all", v) :
            v \in {Num(0), Null, Map1("0", Num(0)), Arr(<<>>),
                   Arr(<<Map1("$gt", Num(0))>>),
                   Arr(<<Map1("$elemMatch", Map1("$gte", Num(0))), Map1("$gte", Num(0))>>),
                   Arr(<<Map1("$elemMatch", Map1("$gte", Num(0))),
                         Map2("b", Num(0), "$foo", Num(0))>>)}}
    \cup {Map1("$mod", v) :
            v \in {Num(1), Null, Arr(<<>>), Arr(<<Num(1)>>),
                   Arr(<<Num(1), Num(0), Num(0)>>), Arr(<<Str("1"), Num(0)>>),
                   Arr(<<Num(1), Null>>), Map2("0", Num(1), "1", Num(0))}}
    \cup {Map1("$size", v) : v \in {Str("1"), Null, Arr(<<Num(1)>>), Bool(TRUE)}}
    \cup {Map2("$gte", Num(0), "$size", Str("1")), Map2("$mod", Arr(<<Num(1)>>), "$ne", Null)}

\* well-formed arguments, for contrast
WellExps ==
  { Map1("$in", Arr(<<Num(0)>>)), Map1("$all", Arr(<<Num(0)>>)),
    Map1("$all", Arr(<<Map1("$elemMatch", Map1("$gte", Num(0)))>>)),
    Map1("$mod", Arr(<<Num(1), Num(0)>>)), Map1("$size", Num(1)) }

MalClauses ==
  {KV(op, v) : op \in queryOps, v \in MalCombArgs}
    \cup {KV(p, e) : p \in {"a", "a.b"}, e \in MalExps}
    \cup {KV("a", e) : e \in WellExps}
    \cup {KV("$and", Arr(<<Map1("a", Map1("$gte", Num(0)))>>))}

\* a clause alone, or followed or preceded by a second clause on another key
MalQueries ==
  {Map(<<c>>) : c \in MalClauses}
    \cup {Map(<<c, KV("b", Map1("$gte", Num(0)))>>) : c \in MalClauses}
    \cup {Map(<<KV("b", Null), c>>) : c \in MalClauses}
    \cup {Map(<<c, KV("b", Map1("$regex", Str("(")))>>) : c \in MalClauses}

InitMal == \E q \in MalQueries : Constructed(q)

SpecMal == InitMal /\ [][Next]_vars

\* the argument v of operator op is malformed
Malformed(op, v) ==
  CASE op \in {"$and", "$or", "$nor", "$in", "$nin"} -> ~IsArray(v)
    [] op = "$all" ->
         \/ ~IsArray(v)
         \/ Len(v.a) = 0
         \/ /\ \A i \in 1..Len(v.a) :
                 /\ v.a[i].t = "map"
                 /\ \E j \in 1..Len(v.a[i].m) : StartsWithDollar(v.a[i].m[j].k)
            /\ \E i \in 1..Len(v.a) : ~MapHas(v.a[i], "$elemMatch")
    [] op = "$mod" ->
         ~(IsArray(v) /\ Len(v.a) = 2 /\ v.a[1].t = "num" /\ v.a[2].t = "num")
    [] op = "$size" -> v.t # "num"
    [] OTHER -> FALSE

\* the operators of the clause at key path of q whose argument is malformed
MalformedOps(q, path) ==
  IF path \in queryOps
  THEN IF Malformed(path, MapGet(q, path)) THEN <<path>> ELSE <<>>
  ELSE IF IsExpression(MapGet(q, path))
  THEN SelectSeq(MapKeys(MapGet(q, path)),
                 LAMBDA op : Malformed(op, MapGet(MapGet(q, path), op)))
  ELSE <<>>

\* the clause of operator op at key path of q, evaluated on d
ClauseResult(q, d, path, op) ==
  CASE op = "$and" -> matchAnd(d, path, MapGet(q, path))
    [] op = "$or" -> matchOr(d, path, MapGet(q, path))
    [] op = "$nor" -> matchNor(d, path, MapGet(q, path))
    [] OTHER -> OperatorResult(op, MapGet(q, path), d, path)

HasMalformed(q) == \E i \in 1..Len(q.m) : Len(MalformedOps(q, q.m[i].k)) > 0

\* C11: a clause whose operator argument is malformed ($and, $or, $nor, $in,
\* $nin with a non-list; $all with a non-list, an empty list or $-keyed maps
\* that do not all contain $elemMatch; $mod with anything but a list of exactly
\* two numbers; $size with a non-number) evaluates to false on every document,
\* and a query with such a clause at its top level matches no document.
C11_MalformedIsFalse ==
  Tested =>
    /\ \A i \in 1..Len(query.m) :
         \A j \in 1..Len(MalformedOps(query, query.m[i].k)) :
           ClauseResult(query, doc, query.m[i].k,
                        MalformedOps(query, query.m[i].k)[j]) = "false"
    /\ HasMalformed(query) => result # "true"

\* $mod with a list of three numbers on a document whose a is divisible: the
\* clause is false although the first two numbers alone would match
C11_Witness ==
  /\ Tested
  /\ query = Map1("a", Map1("$mod", Arr(<<Num(1), Num(0), Num(0)>>)))
  /\ doc = Map1("a", Num(0))
  /\ result = "false"

(***************************************************************************)
(* C12: test(d) depends on the query and d alone                           *)
(***************************************************************************)
StateOperands == {Regex("a", "g"), Regex("a", ""), Regex("A", "i"), Regex("^a", "g"), Str("a")}

StateClauses ==
  {KV(p, v) : p \in {"a", "a.b", "a.0"}, v \in StateOperands}
    \cup {KV(p, Map1(op, v)) : p \in {"a", "a.b"}, op \in {"$eq", "$ne"}, v \in StateOperands}

StateQueries ==
  {Map(<<c>>) : c \in StateClauses}
    \cup {Map(<<KV("b", Map1("$gte", Num(0))), c>>) : c \in StateClauses}
    \cup {Map(<<KV("b", Map1("$regex", Str("("))), c>>) : c \in StateClauses}

InitState == \E q \in StateQueries : Constructed(q)

SpecState == InitState /\ [][Next]_vars

\* the first test(d) of a freshly constructed predicate for q
FreshTest(q, d) == Conj(matchCondAt(q, d, 0).r)

\* C12: whatever calls of test and validate came before, test(d) returns what
\* the first test(d) of a fresh predicate for the same query returns, and the
\* calls leave the query, its operand values included, and the documents as
\* they were.
C12_DependsOnQueryAndDocument ==
  Tested =>
    /\ result = FreshTest(query, doc)
    /\ lastIndex = 0
    /\ doc = Inputs[pos]

(***************************************************************************)
(* C13: $in at the leaf                                                    *)
(***************************************************************************)
\* C13: for a list operand, $in matches at the leaf iff some element of the
\* list satisfies $eq against the leaf (deep equality, a regex element against
\* a string leaf, an element equal to an element of an array leaf), and on an
\* absent path iff the list contains null (or undefined).
C13_InAtLeaf ==
  (Tested /\ PathOp = "$in" /\ IsArray(PathOperand)) =>
    /\ ReachesLeaf(doc, Split(ThePath))
         => result = B(\E j \in 1..Len(PathOperand.a) :
                          EqLeaf(LeafOf(doc, Split(ThePath)), PathOperand.a[j]))
    /\ AbsentAlongMaps(doc, Split(ThePath))
         => result = B(\E j \in 1..Len(PathOperand.a) : PathOperand.a[j] \in {Null, Undef})

(***************************************************************************)
(* Queries of one comparison: {p: {op: v}} for op among $gt, $gte, $lt and *)
(* $lte, and the typed order the comparison is to follow                   *)
(***************************************************************************)
CmpOps == {"$gt", "$gte", "$lt", "$lte"}

CmpOperands ==
  { Num(0), Num(1), Null, Str("a"), Str("ab"), Str("A"), Str("b"), Str("0"),
    Arr(<<>>), Arr(<<Num(0)>>), Arr(<<Num(1)>>), Arr(<<Num(0), Num(1)>>),
    Arr(<<Num(0), Num(0)>>), Arr(<<Null>>), Arr(<<Str("0")>>), Arr(<<Arr(<<Num(0)>>)>>),
    Arr(<<Str("a"), Str("b")>>), Arr(<<Map1("b", Num(0))>>),
    Map(<<>>), Map1("b", Num(0)), Map1("b", Num(1)), Map1("b", Str("a")),
    Map1("b", Null), Map1("c", Num(0)), Map1("b", Arr(<<Num(0)>>)),
    Map2("b", Num(0), "c", Num(1)), Map2("c", Num(1), "b", Num(0)),
    Map2("b", Num(1), "c", Num(0)) }

CmpQueries == {Map1(p, Map1(op, v)) : p \in {"a", "a.b"}, op \in CmpOps, v \in CmpOperands}

InitCmp == \E q \in CmpQueries : Constructed(q)

SpecCmp == InitCmp /\ [][Next]_vars

\* the leaf the path of the query reaches in the document through maps
TheLeaf == LeafOf(doc, Split(ThePath))

AtLeaf == Tested /\ PathOp \in CmpOps /\ ReachesLeaf(doc, Split(ThePath))

\* a < b on strings, code unit by code unit
RECURSIVE CodeUnitsLess(_, _)
CodeUnitsLess(a, b) ==
  IF Len(b) = 0 THEN FALSE
  ELSE IF Len(a) = 0 THEN TRUE
  ELSE IF Head(a) # Head(b) THEN CodeUnit(Head(a)) < CodeUnit(Head(b))
  ELSE CodeUnitsLess(Tail(a), Tail(b))

\* the type of a value in the typed order: null and undefined are one type
TypeOf(v) == IF isNil(v) THEN "null" ELSE v.t

\* the typed order of a against b: "lt", "eq", "gt", or "none" where the two
\* are not comparable
RECURSIVE TypedOrder(_, _)
RECURSIVE ArrayOrder(_, _, _)
RECURSIVE MapOrder(_, _, _)
ArrayOrder(a, b, i) ==
  IF i > Len(a) /\ i > Len(b) THEN "eq"
  ELSE IF i > Len(a) THEN "lt"
  ELSE IF i > Len(b) THEN "gt"
  ELSE IF TypedOrder(a[i], b[i]) = "eq" THEN ArrayOrder(a, b, i + 1)
  ELSE TypedOrder(a[i], b[i])

MapOrder(a, b, i) ==
  IF i > Len(a) /\ i > Len(b) THEN "eq"
  ELSE IF i > Len(a) THEN "lt"
  ELSE IF i > Len(b) THEN "gt"
  ELSE IF a[i].k # b[i].k THEN (IF CodeUnitsLess(a[i].k, b[i].k) THEN "lt" ELSE "gt")
  ELSE IF TypedOrder(a[i].v, b[i].v) = "eq" THEN MapOrder(a, b, i + 1)
  ELSE TypedOrder(a[i].v, b[i].v)

TypedOrder(a, b) ==
  IF TypeOf(a) # TypeOf(b) THEN "none"
  ELSE CASE TypeOf(a) = "null" -> "eq"
         [] TypeOf(a) = "num" -> IF Twice(a) < Twice(b) THEN "lt"
                                 ELSE IF Twice(a) > Twice(b) THEN "gt" ELSE "eq"
         [] TypeOf(a) = "str" ->
              IF CodeUnitsLess(a.s, b.s) THEN "lt"
              ELSE IF CodeUnitsLess(b.s, a.s) THEN "gt" ELSE "eq"
         [] TypeOf(a) = "arr" -> ArrayOrder(a.a, b.a, 1)
         [] TypeOf(a) = "map" -> MapOrder(a.m, b.m, 1)
         [] OTHER -> "none"

\* what operator op returns on two values in the order c
OpHolds(op, c) ==
  CASE c = "lt" -> op \in {"$lt", "$lte"}
    [] c = "eq" -> op \in {"$gte", "$lte"}
    [] c = "gt" -> op \in {"$gt", "$gte"}
    [] OTHER -> FALSE

(***************************************************************************)
(* C14: the equal case                                                     *)
(***************************************************************************)
\* C14: whenever the leaf and the operand are equal (both null, equal numbers,
\* equal strings, deep-equal arrays or deep-equal maps) $gte and $lte match and
\* $gt and $lt do not.
C14_EqualCase ==
  (AtLeaf /\ TypeOf(TheLeaf) \in {"null", "num", "str", "arr", "map"}
          /\ (deepEqual(TheLeaf, PathOperand) \/ (isNil(TheLeaf) /\ isNil(PathOperand))))
     => result = B(PathOp \in {"$gte", "$lte"})

(***************************************************************************)
(* C15: comparison at a leaf that is not an array                          *)
(***************************************************************************)
\* C15: at a leaf that is not an array, two numbers compare numerically and
\* two strings by code units; null equals only null, which $gte and $lte accept
\* and $gt and $lt reject; a leaf and an operand of different types (number
\* and string, scalar and map, null and non-null) make all four operators
\* false.
C15_ScalarOrder ==
  (AtLeaf /\ ~IsArray(TheLeaf)
          /\ \/ TypeOf(TheLeaf) # TypeOf(PathOperand)
             \/ TypeOf(TheLeaf) \in {"null", "num", "str"})
     => result = B(OpHolds(PathOp, TypedOrder(TheLeaf, PathOperand)))

\* the string "ab" is less than the shorter string "b"
C15_Witness ==
  /\ AtLeaf /\ PathOp = "$lt"
  /\ TheLeaf = Str("ab") /\ PathOperand = Str("b")
  /\ result = "true"

(***************************************************************************)
(* C16: array against array                                                *)
(***************************************************************************)
\* no element of the array leaf is itself an array, so that no element can
\* match the array operand on its own
FlatLeaf == IsArray(TheLeaf) /\ \A i \in 1..Len(TheLeaf.a) : ~IsArray(TheLeaf.a[i])

\* C16: an array leaf a and an array operand b compare element by element: the
\* first index where a[i] differs from b[i] decides by the comparison of a[i]
\* with b[i] in the typed order, and of an array and a proper prefix of it the
\* prefix is less.
C16_ArrayOrder ==
  (AtLeaf /\ FlatLeaf /\ IsArray(PathOperand))
     => result = B(OpHolds(PathOp, ArrayOrder(TheLeaf.a, PathOperand.a, 1)))

(***************************************************************************)
(* C17: map against map                                                    *)
(***************************************************************************)
\* C17: a map leaf and a map operand compare over their key sequences in
\* insertion order, position by position: differing key names decide by the
\* comparison of the names, equal key names by the comparison of the two values
\* at that key; the map that runs out of keys first is less, and two empty maps
\* are equal.
C17_MapOrder ==
  (AtLeaf /\ TypeOf(TheLeaf) = "map" /\ TypeOf(PathOperand) = "map")
     => result = B(OpHolds(PathOp, MapOrder(TheLeaf.m, PathOperand.m, 1)))

(***************************************************************************)
(* C18: $elemMatch                                                         *)
(***************************************************************************)
ElemSubQueries ==
  { Map1("b", Num(0)), Map1("b", Map1("$gt", Num(0))), Map1("b", Null),
    Map2("b", Map1("$gte", Num(0)), "c", Null),
    Map2("b", Map1("$gte", Num(1)), "0", Null),
    Map1("b", Map2("$gte", Num(0), "$lte", Num(0))),
    Map1("0", Num(0)), Map(<<>>),
    Map1("$gt", Num(0)), Map1("$gte", Num(0)), Map1("$eq", Num(1)),
    Map2("$gte", Num(0), "$lte", Num(0)), Map1("$in", Arr(<<Num(0), Str("a")>>)),
    Map1("$ne", Num(0)) }

ElemQueries ==
  {Map1(p, Map1("$elemMatch", s)) : p \in {"a", "a.b", "b"}, s \in ElemSubQueries}

InitElem == \E q \in ElemQueries : Constructed(q)

SpecElem == InitElem /\ [][Next]_vars

IsScalar(v) == TypeOf(v) \in {"null", "bool", "num", "str"}

\* the sub-query s of condition operators applied to the scalar e itself
OnItself(s, e) == matchCond(Map1("x", s), Map1("x", e)) = "true"

\* the element e satisfies every clause of the sub-query s: as a value when s
\* consists of condition operators, as a whole document otherwise
ElemSatisfies(s, e) ==
  IF IsExpression(s) THEN OnItself(s, e) ELSE matchCond(s, e) = "true"

\* C18: $elemMatch matches iff the leaf is an array and some single element
\* satisfies every clause of the sub-query, the element being the whole
\* document: condition operators apply to the element itself when it is a
\* scalar, field conditions to the fields of an element that is a map.  A leaf
\* that is not an array never matches.
C18_ElemMatch ==
  (Tested /\ PathOp = "$elemMatch" /\ ReachesLeaf(doc, Split(ThePath))
          /\ (IsArray(TheLeaf) /\ IsExpression(PathOperand)
                => \A i \in 1..Len(TheLeaf.a) : IsScalar(TheLeaf.a[i])))
     => result = B(/\ IsArray(TheLeaf)
                   /\ \E i \in 1..Len(TheLeaf.a) : ElemSatisfies(PathOperand, TheLeaf.a[i]))

(***************************************************************************)
(* Queries of one $all: {p: {$all: v}}                                     *)
(***************************************************************************)
AllScalarLists ==
  { Arr(<<Num(0)>>), Arr(<<Num(1)>>), Arr(<<Num(0), Num(1)>>), Arr(<<Num(1), Num(1)>>),
    Arr(<<Null>>), Arr(<<Str("a")>>), Arr(<<Str("a"), Str("b")>>), Arr(<<Bool(FALSE)>>),
    Arr(<<Arr(<<Num(0)>>)>>), Arr(<<Arr(<<Num(0), Num(1)>>)>>), Arr(<<Arr(<<>>)>>),
    Arr(<<Map1("b", Num(0))>>), Arr(<<Map1("b", Num(1)), Map1("b", Num(0))>>),
    Arr(<<Num(1), Null>>), Arr(<<Map(<<>>)>>) }

ElemMatchOf(s) == Map1("$elemMatch", s)

AllElemMatchLists ==
  { Arr(<<ElemMatchOf(Map1("b", Num(0)))>>),
    Arr(<<ElemMatchOf(Map1("b", Num(0))), ElemMatchOf(Map1("b", Num(1)))>>),
    Arr(<<ElemMatchOf(Map1("b", Map1("$gte", Num(1)))), ElemMatchOf(Map1("b", Map1("$lte", Num(0))))>>),
    Arr(<<ElemMatchOf(Map1("b", Null))>>),
    Arr(<<ElemMatchOf(Map1("b", Null)), ElemMatchOf(Map1("c", Null))>>),
    Arr(<<ElemMatchOf(Map1("b", Num(1))), ElemMatchOf(Map1("b", Num(1)))>>),
    Arr(<<Map2("$elemMatch", Map1("b", Num(0)), "$size", Num(2))>>),
    Arr(<<ElemMatchOf(Map(<<>>)), ElemMatchOf(Map1("b", Map1("$gt", Num(0))))>>) }

AllQueries ==
  {Map1(p, Map1("$all", v)) : p \in {"a", "a.b"}, v \in AllScalarLists \cup AllElemMatchLists}

InitAll == \E q \in AllQueries : Constructed(q)

SpecAll == InitAll /\ [][Next]_vars

\* every element of the list v is a map that contains $elemMatch
ElemMatchForm(v) ==
  /\ IsArray(v) /\ Len(v.a) > 0
  /\ \A i \in 1..Len(v.a) : v.a[i].t = "map" /\ MapHas(v.a[i], "$elemMatch")

(***************************************************************************)
(* C19: $all in scalar form                                                *)
(***************************************************************************)
\* the value o appears in the array leaf, or is the leaf
AppearsIn(leaf, o) ==
  \/ \E i \in 1..Len(leaf.a) : deepEqual(leaf.a[i], o)
  \/ deepEqual(leaf, o)

\* C19: $all with a non-empty list that is not in $elemMatch form matches iff
\* the leaf is an array and every element of the list deep-equals some element
\* of the leaf or the leaf itself, whatever the element's value (number,
\* string, boolean, null, map, array).
C19_AllScalarForm ==
  (Tested /\ PathOp = "$all" /\ ~ElemMatchForm(PathOperand)
          /\ ReachesLeaf(doc, Split(ThePath)))
     => result = B(/\ IsArray(TheLeaf)
                   /\ \A j \in 1..Len(PathOperand.a) : AppearsIn(TheLeaf, PathOperand.a[j]))

(***************************************************************************)
(* C20: $all in $elemMatch form                                            *)
(***************************************************************************)
\* C20: when every element of a non-empty $all list is a map containing
\* $elemMatch, {p: {$all: [e1, ..., en]}} matches d iff each {p: ei} matches d
\* on its own, as {$and: [{p: e1}, ..., {p: en}]} does: each $elemMatch finds
\* its own array member, and two of them need not find the same one.
C20_AllOfElemMatch ==
  (Tested /\ PathOp = "$all" /\ ElemMatchForm(PathOperand)) =>
    /\ result = B(\A i \in 1..Len(PathOperand.a) :
                     matchCond(Map1(ThePath, PathOperand.a[i]), doc) = "true")
    /\ result = matchAnd(doc, "$and",
                         Arr([i \in 1..Len(PathOperand.a) |->
                                Map1(ThePath, PathOperand.a[i])]))

\* two $elemMatch conditions that no single member of a satisfies, each
\* satisfied by a member of its own
C20_Witness ==
  /\ Tested /\ PathOp = "$all" /\ ElemMatchForm(PathOperand) /\ Len(PathOperand.a) = 2
  /\ ThePath = "a"
  /\ ReachesLeaf(doc, Split(ThePath)) /\ IsArray(TheLeaf)
  /\ result = "true"
  /\ \A k \in 1..Len(TheLeaf.a) :
        \E i \in 1..2 : matchCond(MapGet(PathOperand.a[i], "$elemMatch"), TheLeaf.a[k]) # "true"

(***************************************************************************)
(* C21: $mod                                                               *)
(***************************************************************************)
ModNumbers == <<Num(2), Num(0 - 2), Num(0), Num(1), Num(0 - 1), Half(2), Half(0 - 3), Half(0)>>

ModQueries ==
  {Map1(p, Map1("$mod", Arr(<<ModNumbers[i], ModNumbers[j]>>))) :
     p \in {"a", "a.b"}, i \in 1..Len(ModNumbers), j \in 1..Len(ModNumbers)}

InitMod == \E q \in ModQueries : Constructed(q)

SpecMod == InitMod /\ [][Next]_vars

\* the remainder of the division of a by b truncated towards zero, b # 0
Remainder(a, b) == (IF a < 0 THEN 0 - 1 ELSE 1) * (Abs(a) % Abs(b))

\* floor(leaf) mod floor(divisor) equals floor(remainder) at a number leaf;
\* an array leaf holds what some element of it holds
RECURSIVE ModHolds(_, _)
ModHolds(leaf, ov) ==
  \/ /\ leaf.t = "num"
     /\ Floor(Twice(ov.a[1])) # 0
     /\ Remainder(Floor(Twice(leaf)), Floor(Twice(ov.a[1]))) = Floor(Twice(ov.a[2]))
  \/ /\ IsArray(leaf)
     /\ \E i \in 1..Len(leaf.a) : ModHolds(leaf.a[i], ov)

\* C21: $mod with operand [divisor, remainder] matches a number leaf iff
\* floor(leaf) mod floor(divisor) equals floor(remainder), whatever the signs
\* of the leaf and the divisor; a leaf that is no number never matches, and an
\* array leaf matches iff some element of it matches.
C21_Mod ==
  (Tested /\ PathOp = "$mod" /\ ReachesLeaf(doc, Split(ThePath)))
    => (result = "true") = ModHolds(TheLeaf, PathOperand)

(***************************************************************************)
(* C22: $size                                                              *)
(***************************************************************************)
SizeOperands ==
  {Num(0), Num(1), Num(2), Num(0 - 1), Half(0), Half(1), Half(0 - 1), Half(0 - 2),
   Sci(1, 0 - 7), Sci(2, 0 - 7), Sci(1, 21), Str("1"), Null, Arr(<<Num(1)>>)}

SizeQueries == {Map1(p, Map1("$size", v)) : p \in {"a", "a.b", "a.0"}, v \in SizeOperands}

InitSize == \E q \in SizeQueries : Constructed(q)

SpecSize == InitSize /\ [][Next]_vars

\* the length len equals the number v truncated to an integer
LengthIsTruncated(len, v) ==
  IF "e" \in DOMAIN v THEN v.e < 0 /\ len = 0
  ELSE len = (IF Twice(v) < 0 THEN 0 - 1 ELSE 1) * (Abs(Twice(v)) \div 2)

\* C22: $size with a number operand n matches iff the leaf is an array whose
\* length equals n truncated to an integer; the elements of the leaf are not
\* looked into, and a leaf that is no array never matches.
C22_Size ==
  (Tested /\ PathOp = "$size" /\ PathOperand.t = "num" /\ ReachesLeaf(doc, Split(ThePath)))
    => (result = "true") =
         (IsArray(TheLeaf) /\ LengthIsTruncated(Len(TheLeaf.a), PathOperand))

(***************************************************************************)
(* C23: $regex and $options                                                *)
(***************************************************************************)
RegexPatterns ==
  {Str("a"), Str("^a"), Str("b.a"), Str("a$"), Regex("a", ""), Regex("a", "i"),
   Regex("^a", "m"), Regex("a", "g")}

RegexOptions == {"", "i", "m", "s", "x", "g", "xi", "ms", "ism"}

RegexExps ==
  {Map1("$regex", r) : r \in RegexPatterns}
    \cup {Map2("$regex", r, "$options", Str(o)) : r \in RegexPatterns, o \in RegexOptions}
    \cup {Map2("$options", Str(o), "$regex", r) : r \in {Str("a"), Str("^a")}, o \in RegexOptions}
    \cup {Map1("$options", Str(o)) : o \in RegexOptions}
    \cup {Map2("$options", Str(o), "$eq", v) : o \in {"i", "x"}, v \in {Str("a"), Num(0)}}

RegexQueries == {Map1(p, e) : p \in {"a", "a.b"}, e \in RegexExps}

InitRegex == \E q \in RegexQueries : Constructed(q)

SpecRegex == InitRegex /\ [][Next]_vars

\* the pattern of a $regex operand: a pattern string or a precompiled regex
PatternOf(r) == IF r.t = "regex" THEN r.src ELSE r.s

\* the letters of i, m, s that occur in the options
LettersOf(o) ==
  (IF Includes(o, "i") THEN "i" ELSE "")
    \o (IF Includes(o, "m") THEN "m" ELSE "")
    \o (IF Includes(o, "s") THEN "s" ELSE "")

\* the $options of an expression, "" when it has none
OptionsOf(e) == IF MapHas(e, "$options") THEN MapGet(e, "$options").s ELSE ""

\* the string s is matched by the expression's regular expression
Matched(e, s) == RegexTest(PatternOf(MapGet(e, "$regex")), LettersOf(OptionsOf(e)), s)

\* C23: $regex matches iff the leaf is a string, or an array containing a
\* string, that the regular expression built from the $regex operand with
\* exactly the letters i, m, s of $options matches; without $options there
\* are no flags; $options without $regex constrains nothing.
C23_Regex ==
  /\ (Tested /\ MapHas(TheExp, "$regex") /\ ReachesLeaf(doc, Split(ThePath)))
       => (result = "true") =
            (\/ TheLeaf.t = "str" /\ Matched(TheExp, TheLeaf.s)
             \/ /\ IsArray(TheLeaf)
                /\ \E i \in 1..Len(TheLeaf.a) :
                      TheLeaf.a[i].t = "str" /\ Matched(TheExp, TheLeaf.a[i].s))
  /\ (Tested /\ ~MapHas(TheExp, "$regex") /\ Len(TheExp.m) = 1) => result = "true"
  /\ (Tested /\ ~MapHas(TheExp, "$regex") /\ Len(TheExp.m) = 2)
       => result = matchCond(Map1(ThePath, Map(Tail(TheExp.m))), doc)

(***************************************************************************)
(* C24: $where                                                             *)
(***************************************************************************)
\* function () { body }, a function of the host
Function(body) == Fn("host", body)

WhereBodies == {"return true", "return false", "return this.a === 0"}

WhereValues ==
  {Function(b) : b \in WhereBodies} \cup {Str(b) : b \in WhereBodies}
    \cup {Null, Num(0), Bool(TRUE), Arr(<<>>), Map1("foo", Str("bar")), Map1("$eq", Null)}

WhereQueries == {Map1("$where", v) : v \in WhereValues}

InitWhere == \E q \in WhereQueries : Constructed(q)

SpecWhere == InitWhere /\ [][Next]_vars

\* the function body returns a truthy value with d bound to this
ReturnsTruthy(body, d) ==
  CASE body = "return true" -> TRUE
    [] body = "return false" -> FALSE
    [] body = "return this.a === 0" ->
         d.t = "map" /\ MapHas(d, "a") /\ StrictEqual(MapGet(d, "a"), Num(0))

\* C24: {$where: f}, f a function or a string holding a function body,
\* matches exactly the documents for which f returns a truthy value with the
\* document bound to this; a $where that holds neither matches no document.
C24_Where ==
  (Tested /\ ThePath = "$where")
    => (result = "true") =
         (CASE TheExp.t = "fn" -> ReturnsTruthy(TheExp.name, doc)
            [] TheExp.t = "str" -> ReturnsTruthy(TheExp.s, doc)
            [] OTHER -> FALSE)

(***************************************************************************)
(* Queries handed to validate()                                            *)
(***************************************************************************)
\* expressions with an operator argument validate() looks at
ValExps ==
  MalExps \cup WellExps
    \cup {Map1("$all", Arr(<<Map1("$elemMatch", Map1("b", Num(0))), Num(0)>>)),
          Map1("$all", Arr(<<Map1("$elemMatch", Map1("b", Num(0))), Map1("b", Num(0))>>)),
          Map1("$all", Arr(<<Map1("$and", Arr(<<Map1("b", Num(0))>>))>>)),
          Map2("$in", Arr(<<>>), "$nin", Num(0)),
          Map2("$size", Str("1"), "$mod", Num(0)),
          Map1("$mod", Arr(<<Half(1), Num(0 - 1)>>)), Map1("$size", Half(1))}

\* operands: values that are no expression
ValOperands ==
  {Num(0), Null, Str("a"), Arr(<<>>), Map(<<>>), Map1("b", Num(0)),
   Map2("$in", Num(0), "b", Num(0)), Map1("$foo", Num(0)), Map1("$where", Num(0))}

\* expressions whose malformed argument lies under $not or $elemMatch
NestedExps ==
  {Map1("$not", e) : e \in {Map1("$in", Str("x")), Map1("$size", Str("1")),
                            Map1("$mod", Arr(<<Num(1)>>)), Map1("$in", Arr(<<>>))}}
    \cup {Map1("$elemMatch", q) :
            q \in {Map1("b", Map1("$in", Str("x"))), Map1("$and", Str("x")),
                   Map1("$in", Str("x")), Map1("b", Num(0))}}
    \cup {Map1("$all", Arr(<<Map1("$elemMatch", Map1("b", Map1("$nin", Num(0))))>>))}

ValClauses == {KV(p, e) : p \in {"a", "a.b"}, e \in ValExps \cup ValOperands \cup NestedExps}

\* what a combinator's list holds
ValBranches ==
  {Str("x"), Null, Num(0), Arr(<<>>), Regex("a", ""), Map(<<>>), Map1("a", Num(0)),
   Map1("a", Map1("$in", Num(0))), Map1("a", Map1("$not", Map1("$in", Num(0))))}
    \cup {Map1(op, v) : op \in queryOps,
                        v \in {Str("x"), Arr(<<>>), Arr(<<Map1("a", Num(0))>>),
                               Arr(<<Str("x")>>), Arr(<<Map1("$or", Null)>>),
                               Arr(<<Map1("$nor", Arr(<<Num(0)>>))>>),
                               Arr(<<Map1("a", Map1("$size", Null))>>)}}

ValQueries ==
  {Null, Undef, Num(0), Str("a"), Bool(TRUE), Arr(<<>>), Arr(<<Map1("a", Num(0))>>),
   Regex("a", ""), Fn("host", "return true"), Map(<<>>)}
    \cup {Map(<<c>>) : c \in ValClauses}
    \cup {Map1(op, v) : op \in queryOps, v \in MalCombArgs}
    \cup {Map1(op, Arr(<<b>>)) : op \in queryOps, b \in ValBranches}
    \cup {Map1(op, Arr(<<Map1("a", Num(0)), b>>)) : op \in queryOps, b \in ValBranches}
    \cup {Map(<<KV("a", Num(0)), KV(op, Arr(<<b>>))>>) : op \in {"$and"}, b \in ValBranches}

InitVal == \E q \in ValQueries : Constructed(q)

SpecVal == InitVal /\ [][Next]_vars

Validated == validated # "none"

Raised == validated \notin {"none", "self"}

(***************************************************************************)
(* C25: validate() and the structure of the query                          *)
(***************************************************************************)
\* q is not a non-array map, or a combinator key of q has a non-list value or
\* a list one of whose elements has such a defect
RECURSIVE StructuralDefect(_)
StructuralDefect(q) ==
  \/ q.t # "map"
  \/ \E i \in 1..Len(q.m) :
        /\ q.m[i].k \in queryOps
        /\ \/ ~IsArray(q.m[i].v)
           \/ \E j \in 1..Len(q.m[i].v.a) : StructuralDefect(q.m[i].v.a[j])

\* validate() rejects the argument v of operator op
Rejected(op, v) ==
  CASE op \in {"$in", "$nin"} -> ~IsArray(v)
    [] op = "$all" ->
         \/ ~IsArray(v)
         \/ /\ Len(v.a) > 0
            /\ \A i \in 1..Len(v.a) :
                 /\ v.a[i].t = "map"
                 /\ \E j \in 1..Len(v.a[i].m) : StartsWithDollar(v.a[i].m[j].k)
            /\ \E i \in 1..Len(v.a) : ~MapHas(v.a[i], "$elemMatch")
    [] op = "$mod" ->
         ~(IsArray(v) /\ Len(v.a) = 2 /\ v.a[1].t = "num" /\ v.a[2].t = "num")
    [] op = "$size" -> v.t # "num"
    [] OTHER -> FALSE

\* an operator of the expression e has an argument validate() rejects
RejectedIn(e) == \E i \in 1..Len(e.m) : Rejected(e.m[i].k, e.m[i].v)

\* some operator argument anywhere in q is malformed
RECURSIVE HasMalformedArgument(_)
HasMalformedArgument(v) ==
  \/ v.t = "map" /\ IsExpression(v) /\ RejectedIn(v)
  \/ v.t = "map" /\ \E i \in 1..Len(v.m) : HasMalformedArgument(v.m[i].v)
  \/ v.t = "arr" /\ \E i \in 1..Len(v.a) : HasMalformedArgument(v.a[i])

\* C25: validate() raises a TypeError if the query is not a non-array map, if
\* a $and, $or or $nor key has a non-list value, or if an element of such a
\* list fails validation in turn, at every depth; a query without such a
\* defect and without a malformed operator argument is accepted.
C25_Structure ==
  Validated =>
    /\ StructuralDefect(query) => Raised
    /\ (~StructuralDefect(query) /\ ~HasMalformedArgument(query)) => validated = "self"

(***************************************************************************)
(* C26: validate() and operator arguments                                  *)
(***************************************************************************)
\* the query is one path with its value
OnePath == IsMapQuery /\ Len(query.m) = 1 /\ ThePath \notin queryOps

\* the TypeError raised names the operator op
Names(op) == SubSeq(validated, 1, Len(op) + 1) = op \o " "

\* C26: for a path whose value is an expression, validate() raises a TypeError
\* naming the operator iff $in, $nin or $all has a non-list argument, $mod is
\* not a list of exactly two numbers, $size is not a number, or $all is a
\* non-empty list of maps that all have a $-prefixed key but do not all contain
\* $elemMatch; a path whose value is an operand is never rejected.
C26_OperatorArguments ==
  (Validated /\ OnePath) =>
    IF IsExpression(TheExp)
    THEN /\ Raised = RejectedIn(TheExp)
         /\ Raised => \E i \in 1..Len(TheExp.m) :
                         Rejected(TheExp.m[i].k, TheExp.m[i].v) /\ Names(TheExp.m[i].k)
    ELSE validated = "self"

\* a $all whose maps all have a $-prefixed key, one of them without $elemMatch,
\* has been rejected
C26_Witness ==
  /\ Raised /\ OnePath /\ IsExpression(TheExp)
  /\ PathOp = "$all" /\ IsArray(PathOperand) /\ Len(PathOperand.a) = 2
  /\ MapHas(PathOperand.a[1], "$elemMatch")

(***************************************************************************)
(* C27: what validate() returns                                            *)
(***************************************************************************)
\* the messages of the structural TypeErrors
StructuralErrors ==
  {"query must be an object"}
    \cup {op \o " operator value must be an array" :
            op \in {"$and", "$or", "$nor", "$in", "$nin", "$all"}}
    \cup {"$mod operator value must be an array of 2 numbers",
          "$size operator value must be a number"}

\* C27: validate() returns the predicate itself or raises a structural
\* TypeError, never false or another value; once a validate() has raised, a
\* later validate() raises the same error and a later test(d) returns what a
\* predicate newly made of the query returns on d.
C27_ValidateReturns ==
  [][/\ validated' \in {"none", "self"} \cup StructuralErrors
     /\ (validated' = "self") = (validated' # "none" /\ validate(query) = "ok")
     /\ Raised => validated' = validated
     /\ (Raised /\ pos' # pos) => result' = FreshTest(query, doc')]_vars

\* validate() has raised on a query that matches a document
C27_Witness == Raised /\ result = "true" /\ pos > 1

(***************************************************************************)
(* C28: an absent path and null                                            *)
(***************************************************************************)
\* traversing the segments parts through cur reaches a leaf value: through the
\* key of a map, through the index of an array, or through any element of an
\* array
RECURSIVE ReachesValue(_, _)
ReachesValue(cur, parts) ==
  \/ Len(parts) = 0
  \/ /\ cur.t = "map" /\ MapHas(cur, Head(parts))
     /\ ReachesValue(MapGet(cur, Head(parts)), Tail(parts))
  \/ /\ IsArray(cur) /\ IsIndexCandidate(Head(parts)) /\ parseInt(Head(parts)) < Len(cur.a)
     /\ ReachesValue(cur.a[parseInt(Head(parts)) + 1], Tail(parts))
  \/ /\ IsArray(cur)
     /\ \E i \in 1..Len(cur.a) : ReachesValue(cur.a[i], parts)

\* C28: for any document d and any path p absent from d (traversing p through
\* d reaches no leaf value), the query {p: null} matches d.
C28_AbsentMatchesNull ==
  (Tested /\ TheExp = Null /\ ~ReachesValue(doc, Split(ThePath))) => result = "true"

(***************************************************************************)
(* C29: what validate() does not look into                                 *)
(***************************************************************************)
\* an expression that is the value of a path of q, or of a path in a branch
\* of a combinator of q at any depth, has an argument validate() rejects
RECURSIVE DirectDefect(_)
DirectDefect(q) ==
  /\ q.t = "map"
  /\ \E i \in 1..Len(q.m) :
        IF q.m[i].k \in queryOps
        THEN IsArray(q.m[i].v) /\ \E j \in 1..Len(q.m[i].v.a) : DirectDefect(q.m[i].v.a[j])
        ELSE IsExpression(q.m[i].v) /\ RejectedIn(q.m[i].v)

\* C29: validate() checks the operator arguments of the expressions that are
\* the value of a path of the query or of a path in its $and, $or and $nor
\* branches, at any depth, and of no other: a query whose only malformed
\* argument lies in the sub-expression of $not or the sub-query of $elemMatch
\* passes validate().
C29_NestedUnchecked ==
  (Validated /\ ~StructuralDefect(query)) => (validated = "self") = ~DirectDefect(query)

\* a query with a malformed argument under $not or $elemMatch has passed
C29_Witness ==
  /\ validated = "self"
  /\ HasMalformedArgument(query) /\ ~DirectDefect(query)
  /\ OnePath /\ PathOp \in {"$not", "$elemMatch"}

(***************************************************************************)
(* C30: the four comparisons of two maps                                   *)
(***************************************************************************)
\* the operator that holds of exactly the pairs op does not hold of
Opposite(op) ==
  CASE op = "$gte" -> "$lt"
    [] op = "$lt" -> "$gte"
    [] op = "$gt" -> "$lte"
    [] op = "$lte" -> "$gt"

\* C30: for a map leaf and a map operand at the same path, $gte matches iff
\* $lt does not, and $gt matches iff $lte does not.
C30_MapOrderTotal ==
  (AtLeaf /\ TheLeaf.t = "map" /\ PathOperand.t = "map")
    => (result = "true")
         = (ValueOp(Opposite(PathOp), PathOperand, doc, Split(ThePath)) # "true")

\* two maps with the same key whose values are in no order: $gte matches
C30_Witness ==
  /\ AtLeaf /\ TheLeaf.t = "map" /\ PathOperand.t = "map"
  /\ PathOp = "$gte" /\ result = "true"
  /\ Len(TheLeaf.m) = 1 /\ Len(PathOperand.m) = 1
  /\ TheLeaf.m[1].k = PathOperand.m[1].k
  /\ TheLeaf.m[1].v.t = "num" /\ PathOperand.m[1].v.t = "str"

=============================================================================
